---- MODULE Spec2Model ----
(***************************************************************************)
(* Recording-orchestration backend (visia-flask-backend).                  *)
(*                                                                         *)
(* Spec      : the camera controller (api/hardware/cam.py, camera/cam.py)  *)
(*             driven by the video endpoints (api/blueprints/bp_video/     *)
(*             routes.py, app.py), one request in flight at a time, with   *)
(*             the host environment (process table, camera cable, staging  *)
(*             directory) changing between the steps.                      *)
(* SpecWatch : check_for_new_files (api/utils/files.py) against a clock.   *)
(***************************************************************************)
EXTENDS Integers, Sequences, FiniteSets, TLC

(***************************************************************************)
(* Bounds of the model.                                                    *)
(***************************************************************************)
\* files that can ever be created in the staging directory
MaxFiles == 2
\* longest timer_seconds check_for_new_files is called with (seconds)
MaxTimer == 25
\* entries the watched directory can hold
MaxEntries == 2
\* file names of a directory the lookups read
MaxNames == 3
\* creation times of its entries
MaxCtime == 3
\* bytes of a payload handed to the encryptor
MaxLen == 3
\* values in the answer to a list command
MaxValues == 3
\* processes named CameraControl.exe at one time
MaxProcs == 2

(***************************************************************************)
(* Raw text output of CameraControlRemoteCmd.exe, as the set of the        *)
(* substrings the code looks for that it contains.                         *)
(***************************************************************************)
NoCameraMarker == "no camera is connected"
EmptyMarker == "response:\"\""
NullMarker == "response:null"
PcistorMarker == "\"_??_pcistor\""
EosMarker == "EOS"

\* subprocess.run(cmd, capture_output=True): it raises when the process cannot
\* be spawned, and otherwise returns the exit code and stdout (no check=True)
Result(ok, code, text) == [spawn |-> ok, rc |-> code, out |-> text]
SpawnFailure == Result(FALSE, 0, {})

\* the results each command is run against: one for every branch of the code
\* that reads it, and the mixed outputs the branches have to order
GenericResults ==
    {SpawnFailure, Result(TRUE, 0, {}), Result(TRUE, 1, {}),
     Result(TRUE, 0, {EmptyMarker}), Result(TRUE, 0, {NullMarker})}
LiveViewResults ==
    GenericResults \cup {Result(TRUE, 0, {NoCameraMarker}),
                         Result(TRUE, 0, {NoCameraMarker, EmptyMarker})}
HideResults ==
    {SpawnFailure, Result(TRUE, 1, {}), Result(TRUE, 0, {NoCameraMarker}),
     Result(TRUE, 0, {EmptyMarker})}
ListCamerasResults ==
    {SpawnFailure, Result(TRUE, 0, {}), Result(TRUE, 0, {NoCameraMarker}),
     Result(TRUE, 0, {NullMarker}), Result(TRUE, 0, {PcistorMarker}),
     Result(TRUE, 0, {EosMarker}), Result(TRUE, 0, {EosMarker, PcistorMarker}),
     Result(TRUE, 0, {EosMarker, NullMarker})}

\* what a command can answer on this host: nothing can be spawned when
\* CameraControlRemoteCmd.exe is not there
OnHost(inst, results) == IF inst THEN results ELSE {SpawnFailure}

\* what the controller can answer to "list cameras": a camera model name only
\* when the controller runs and a camera is plugged in
ListResults(inst, running, plug) ==
    IF running /\ plug THEN OnHost(inst, ListCamerasResults)
    ELSE {r \in OnHost(inst, ListCamerasResults) : EosMarker \notin r.out}

(***************************************************************************)
(* Responses (BasicResponse).                                              *)
(***************************************************************************)
Response(s, c, m) == [success |-> s, status_code |-> c, message |-> m, unhandled |-> FALSE]
\* an exception that leaves the view function: Flask answers 500 itself
Unhandled == [success |-> FALSE, status_code |-> 500, message |-> "Internal Server Error", unhandled |-> TRUE]
NoResponse == [success |-> FALSE, status_code |-> 0, message |-> "", unhandled |-> FALSE]

\* the messages of the code that contain "not connected"
NotConnectedMessages == {"Camera not connected"}
\* the messages of the code that contain "not uploaded"
NotUploadedMessages == {"Video recorded but not uploaded."}

VARIABLES
    procRunning,   \* CameraControl.exe is among the OS processes
    installed,     \* CameraControlRemoteCmd.exe exists under exeDir
    plugged,       \* a camera is physically connected
    dir,           \* entries of the staging directory (ids grow with ctime)
    nextFile,      \* id of the next file to be created
    upload_files,  \* BasicFileConfig.upload_files
    store,         \* videos persisted in MongoDB (ids of the files stored)
    pc,            \* position of the request in flight
    req,           \* the request in flight and its local variables
    log,           \* events of the request in flight
    resp,          \* response of the request
    session,       \* "started" after a start, "stopped" after the stop that follows it
    watch,         \* a call of check_for_new_files and its clock (SpecWatch)
    camera,        \* the Camera object of the deployment: revision, is_up, is_plug
    earlier,       \* outcome and status code of an earlier request (SpecOutcomes)
    call           \* a direct call of one method or function and what it gave

vars == <<procRunning, installed, plugged, dir, nextFile, upload_files, store,
          pc, req, log, resp, session, watch, camera, earlier, call>>

mainVars == <<procRunning, installed, plugged, dir, nextFile, upload_files, store,
              pc, req, log, resp, session, camera>>

envVars == <<procRunning, installed, plugged, dir, nextFile>>

\* what a request leaves alone
sideVars == <<watch, earlier, call>>

(***************************************************************************)
(* Events of a request, in the order they happen; `up` tells whether the   *)
(* controller process was alive when the event began.                      *)
(***************************************************************************)
NoResult == Result(TRUE, 0, {})
Event(e, c, r) == [ev |-> e, cmd |-> c, res |-> r, up |-> procRunning]
CmdEvent(c, r) == Event("cmd", c, r)
\* the scan of the process table and what it gave
ProbeEvent(probe) == Event("probe", probe, NoResult)
LaunchEvent(ok) == Event("launch", "CameraControl.exe", Result(ok, 0, {}))
\* time.sleep(secs), the seconds as written in the source
SleepEvent(secs) == Event("sleep", secs, NoResult)
\* a method of the controller returns ok (a raise counts as not ok), having
\* scanned the process table with the result `probe` ("none": no scan)
ReturnEvent(method, ok, probe) == Event("return", method, Result(ok, 0, {probe}))

Kinds == {"startVideo", "stopVideo", "preview", "makeVideo", "upload"}
\* "api": api/blueprints/bp_video/routes.py with api/hardware/cam.py
\* "app": app.py with camera/cam.py
Revisions == {"api", "app"}

\* the local variables of a view function: camera_response, the responses of
\* start_recording and stop_recording, the snapshot passed to the watcher, the
\* listing read, the file picked, the request body; and where the session stood
\* when the request arrived
NoRequest ==
    [kind |-> "none", rev |-> "api", cam |-> NoResponse, start |-> NoResponse,
     stop |-> NoResponse, known |-> {}, seen |-> {}, video |-> 0, body |-> "none",
     prior |-> "none"]

\* check_for_new_files not called
NoWatch ==
    [pc |-> "off", path |-> "", known |-> {}, timer |-> 0, entries |-> {},
     now |-> 0, start |-> 0, wake |-> 0, result |-> FALSE, polls |-> 0,
     slept |-> 0, arrived |-> -1, changed |-> FALSE]

\* no outcome is kept / none was seen yet
OutcomesOff == [on |-> FALSE, outcome |-> "none", status |-> 0]
NoOutcome == [on |-> TRUE, outcome |-> "none", status |-> 0]

\* no method is called directly
NoCall ==
    [op |-> "none", rev |-> "api", pc |-> "off", at |-> 0, sent |-> <<>>,
     how |-> "pending", ret |-> NoResponse,
     result |-> SpawnFailure, file |-> 0, readable |-> FALSE, removable |-> FALSE,
     disk |-> 0, data |-> 0, did |-> {},
     probe |-> "none", procs |-> 0, fails |-> 0, left |-> 0]

InitRequests ==
    /\ watch = NoWatch
    /\ call = NoCall
    /\ camera \in [rev : Revisions, is_up : {FALSE}, is_plug : {FALSE}]
    /\ procRunning \in BOOLEAN
    /\ installed \in BOOLEAN
    /\ plugged \in BOOLEAN
    /\ dir = {}
    /\ nextFile = 1
    /\ upload_files = {}
    /\ store = {}
    /\ pc = "new"
    /\ req = NoRequest
    /\ log = <<>>
    /\ resp = NoResponse
    /\ session = "none"

Init == InitRequests /\ earlier = OutcomesOff

\* the same program with the outcome of the first failed request kept
InitOutcomes == InitRequests /\ earlier = NoOutcome

(***************************************************************************)
(* Environment.                                                            *)
(***************************************************************************)
\* the controller (or another endpoint) writes a file into the staging directory,
\* between two requests, while a preview waits for it, or behind a reader's back
FileArrives ==
    /\ UNCHANGED <<sideVars, camera>>
    /\ pc \in {"idle", "watch", "delete_all"}
    /\ nextFile <= MaxFiles
    /\ dir' = dir \cup {nextFile}
    /\ nextFile' = nextFile + 1
    /\ UNCHANGED <<procRunning, installed, plugged, upload_files, store,
                   pc, req, log, resp, session>>

\* the camera cable is plugged or unplugged between two requests
CableChanges ==
    /\ UNCHANGED <<sideVars, camera>>
    /\ pc = "idle"
    /\ plugged' = ~plugged
    /\ UNCHANGED <<procRunning, installed, dir, nextFile, upload_files, store,
                   pc, req, log, resp, session>>

\* the controller process exits between two requests
ControllerExits ==
    /\ UNCHANGED <<sideVars, camera>>
    /\ pc = "idle"
    /\ procRunning
    /\ procRunning' = FALSE
    /\ UNCHANGED <<installed, plugged, dir, nextFile, upload_files, store,
                   pc, req, log, resp, session>>

(***************************************************************************)
(* Camera controller: the methods as functions of what the host answers.   *)
(***************************************************************************)
\* Camera.is_camera: the classification of the "list cameras" output
IsCameraValue(r) ==
    IF ~r.spawn THEN FALSE
    ELSE IF NoCameraMarker \in r.out \/ NullMarker \in r.out THEN FALSE
    ELSE IF PcistorMarker \in r.out THEN FALSE
    ELSE IF EosMarker \in r.out THEN TRUE
    ELSE FALSE

IsCameraEvents(r) == <<SleepEvent("5"), CmdEvent("list cameras", r)>>

\* psutil.process_iter(): "found", "absent", or "error" when the scan raises
ProbeResults(running) == {IF running THEN "found" ELSE "absent", "error"}

\* Camera.open_program: Popen of CameraControl.exe
OpenProgramResponse(popenOk) ==
    IF popenOk THEN Response(TRUE, 200, "CameraControl.exe is running")
    ELSE Response(FALSE, 500, "CameraControl.exe is not running")

\* Camera.is_running: launches the controller when it is not found
IsRunningValue(probe, popenOk) ==
    CASE probe = "found" -> TRUE
      [] probe = "error" -> FALSE
      [] OTHER -> popenOk

\* faulty variant: is_running launches whenever the scan did not find the process,
\* a scan that raised included
IsRunningEventsEager(rev, probe, popenOk) ==
    <<ProbeEvent(probe)>>
        \o (IF probe # "found" THEN <<LaunchEvent(popenOk)>> ELSE <<>>)
        \o <<ReturnEvent("is_running", IsRunningValue(probe, popenOk), probe)>>

IsRunningEvents(rev, probe, popenOk) ==
    <<ProbeEvent(probe)>>
        \o (IF probe = "absent" THEN <<LaunchEvent(popenOk)>> ELSE <<>>)
        \o (IF probe = "absent" /\ popenOk /\ rev = "app"
            THEN <<SleepEvent("10")>> ELSE <<>>)
        \o <<ReturnEvent("is_running", IsRunningValue(probe, popenOk), probe)>>

\* Camera.run_digicam: raises when the process scan raises
RunDigicamRaises(inst, probe) == inst /\ probe = "error"

RunDigicamResponse(inst, probe, popenOk) ==
    IF ~inst THEN Response(FALSE, 500, "CameraControl.exe is not installed")
    ELSE IF probe = "absent" THEN OpenProgramResponse(popenOk)
    ELSE Response(TRUE, 200, "CameraControl.exe is running")

RunDigicamEvents(inst, probe, popenOk) ==
    IF ~inst
    THEN <<ReturnEvent("run_digicam", RunDigicamResponse(inst, probe, popenOk).success,
                       "none")>>
    ELSE <<ProbeEvent(probe)>>
        \o (IF probe = "absent" THEN <<LaunchEvent(popenOk)>> ELSE <<>>)
        \o (IF probe = "absent" /\ popenOk THEN <<SleepEvent("10")>> ELSE <<>>)
        \o <<ReturnEvent("run_digicam",
                         ~RunDigicamRaises(inst, probe)
                             /\ RunDigicamResponse(inst, probe, popenOk).success,
                         probe)>>

\* whether the call started the controller process
Launches(probe, popenOk) == probe = "absent" /\ popenOk

\* faulty variant: the accepted marker is looked for before the
\* disconnected-camera marker
LiveViewAcceptedAnyCamera(lv) ==
    /\ lv.spawn
    /\ (EmptyMarker \in lv.out \/ NullMarker \in lv.out)

\* Camera.start_recording
LiveViewAccepted(lv) ==
    /\ lv.spawn
    /\ NoCameraMarker \notin lv.out
    /\ (EmptyMarker \in lv.out \/ NullMarker \in lv.out)

StartRecordingEvents(rev, lv, sr) ==
    (IF rev = "api" THEN <<SleepEvent("5")>> ELSE <<>>)
        \o <<CmdEvent("LiveViewWnd_Show", lv)>>
        \o (IF LiveViewAccepted(lv) THEN <<CmdEvent("StartRecord", sr)>> ELSE <<>>)

StartRecordingResponse(lv, sr) ==
    IF ~lv.spawn THEN Response(FALSE, 500, "Camera: Recording failed - Error")
    ELSE IF NoCameraMarker \in lv.out
    THEN Response(FALSE, 500, "Error: No camera is connected")
    ELSE IF EmptyMarker \in lv.out \/ NullMarker \in lv.out
    THEN (IF ~sr.spawn THEN Response(FALSE, 500, "Camera: Recording failed - Error")
          ELSE IF EmptyMarker \in sr.out
          THEN Response(TRUE, 200, "Camera: Recording started")
          ELSE Response(FALSE, 500, "Camera: Recording failed - Status"))
    ELSE Response(FALSE, 500, "Camera: LiveViewWnd failed - Status")

\* Camera.stop_recording
StopAccepted(st) == st.spawn /\ EmptyMarker \in st.out

\* faulty variant: a refused StopRecord is sent a second time
StopRecordingEventsRetried(st, hd) ==
    <<CmdEvent("StopRecord", st)>>
        \o (IF StopAccepted(st) THEN <<CmdEvent("LiveViewWnd_Hide", hd)>>
            ELSE <<CmdEvent("StopRecord", st)>>)

StopRecordingEvents(st, hd) ==
    <<CmdEvent("StopRecord", st)>>
        \o (IF StopAccepted(st) THEN <<CmdEvent("LiveViewWnd_Hide", hd)>> ELSE <<>>)

StopRecordingResponse(st, hd) ==
    IF ~st.spawn THEN Response(FALSE, 500, "Camera: Recording stop failed - Error")
    ELSE IF EmptyMarker \in st.out
    THEN (IF ~hd.spawn THEN Response(FALSE, 500, "Camera: Recording stop failed - Error")
          ELSE Response(TRUE, 200, "Camera: Recording stopped"))
    ELSE Response(FALSE, 500, "Camera: Recording stop failed - Status")

(***************************************************************************)
(* Reading the log of a request.                                           *)
(***************************************************************************)
IsCmd(e, c) == e.ev = "cmd" /\ e.cmd = c
Issued(l, c) == \E i \in 1..Len(l) : IsCmd(l[i], c)
AcceptedEmpty(l, c) ==
    \E i \in 1..Len(l) : IsCmd(l[i], c) /\ l[i].res.spawn /\ EmptyMarker \in l[i].res.out
Launched(l) == \E i \in 1..Len(l) : l[i].ev = "launch"
Did(l, e, c) == \E i \in 1..Len(l) : l[i].ev = e /\ l[i].cmd = c

\* the request did what it is for, as far as the controller is concerned
RequestOk(kind, l, r) ==
    CASE kind = "startVideo" -> AcceptedEmpty(l, "StartRecord")
      [] kind = "stopVideo" -> AcceptedEmpty(l, "StopRecord")
      [] OTHER -> r.success

\* where the start/stop/upload sequence stands after a request
NextSession(s, kind, ok) ==
    IF kind = "startVideo" /\ ok THEN "started"
    ELSE IF kind = "stopVideo" /\ ok /\ s = "started" THEN "stopped"
    ELSE "none"

(***************************************************************************)
(* Requests.                                                               *)
(***************************************************************************)
FirstStep(kind, rev) ==
    CASE kind \in {"startVideo", "preview"} /\ rev = "api" -> "is_camera"
      [] kind \in {"startVideo", "preview", "makeVideo"} -> "is_running"
      [] kind = "stopVideo" -> "snapshot"
      [] OTHER -> "parse_body"

\* `camera = Camera()` when the module is imported: run_digicam, and in
\* api/hardware/cam.py is_camera as well; a raise ends the import
ConstructCamera ==
    /\ pc = "new"
    /\ \E probe \in ProbeResults(procRunning), popenOk \in BOOLEAN :
       \E r \in ListResults(installed,
                            procRunning \/ (installed /\ Launches(probe, popenOk)),
                            plugged) :
          LET up == RunDigicamResponse(installed, probe, popenOk).success IN
          /\ procRunning' = (procRunning \/ (installed /\ Launches(probe, popenOk)))
          /\ IF RunDigicamRaises(installed, probe)
             THEN /\ pc' = "crashed"
                  /\ log' = RunDigicamEvents(installed, probe, popenOk)
                  /\ UNCHANGED camera
             ELSE /\ pc' = "idle"
                  /\ log' = RunDigicamEvents(installed, probe, popenOk)
                             \o (IF camera.rev = "api" THEN IsCameraEvents(r) ELSE <<>>)
                  /\ camera' = [camera EXCEPT !.is_up = up,
                                   !.is_plug = camera.rev = "api" /\ IsCameraValue(r)]
    /\ UNCHANGED <<installed, plugged, dir, nextFile, upload_files, store, req, resp,
                   session, sideVars>>

\* a request arrives
BeginRequest(kind, rev) ==
    /\ UNCHANGED <<sideVars, camera>>
    /\ pc = "idle"
    /\ kind = "makeVideo" => rev = "app"
    /\ kind \in {"stopVideo", "preview", "upload"} => rev = "api"
    /\ rev = camera.rev
    /\ req' = [NoRequest EXCEPT !.kind = kind, !.rev = rev, !.prior = session]
    /\ log' = <<>>
    /\ resp' = NoResponse
    /\ pc' = FirstStep(kind, rev)
    /\ UNCHANGED <<envVars, upload_files, store, session>>

\* the controller ran command c and did not accept it
Refused(l, c) ==
    \E i \in 1..Len(l) : IsCmd(l[i], c) /\ l[i].res.spawn /\ EmptyMarker \notin l[i].res.out

\* the failure a finished request met, "none" when it met none of the four
Outcome(kind, l) ==
    IF \E i \in 1..Len(l) : IsCmd(l[i], "list cameras") /\ ~IsCameraValue(l[i].res)
    THEN "NotConnected"
    ELSE IF Refused(l, "StartRecord") \/ Refused(l, "StopRecord")
    THEN "RecordingRejected"
    ELSE IF Did(l, "watch", "timeout")
    THEN "FileNotArrived"
    ELSE IF /\ kind = "upload" /\ Did(l, "read", "done")
            /\ (Did(l, "encrypt", "failed") \/ Did(l, "insert", "failed"))
    THEN "PersistenceFailed"
    ELSE "none"

\* the response has left: the locals of the view function are gone
RequestEnds ==
    /\ UNCHANGED <<watch, call, camera>>
    /\ pc = "done"
    /\ earlier' = IF /\ earlier.on /\ earlier.outcome = "none" /\ ~resp.unhandled
                     /\ Outcome(req.kind, log) # "none"
                  THEN [earlier EXCEPT !.outcome = Outcome(req.kind, log),
                                       !.status = resp.status_code]
                  ELSE earlier
    /\ pc' = "idle"
    /\ req' = NoRequest
    /\ log' = <<>>
    /\ resp' = NoResponse
    /\ UNCHANGED <<envVars, upload_files, store, session>>

\* the view function returns r (or an exception leaves it)
Respond(r, events) ==
    /\ pc' = "done"
    /\ resp' = r
    /\ log' = log \o events
    /\ session' = NextSession(session, req.kind, RequestOk(req.kind, log \o events, r))

\* routes.py:56 / :148  `if not camera.is_camera()`
IsCameraStep ==
    /\ UNCHANGED <<sideVars, camera>>
    /\ pc = "is_camera"
    /\ \E r \in ListResults(installed, procRunning, plugged) :
          IF IsCameraValue(r)
          THEN /\ pc' = "is_running"
               /\ log' = log \o IsCameraEvents(r)
               /\ UNCHANGED <<resp, session>>
          ELSE Respond(Response(FALSE, 400, "Camera not connected"), IsCameraEvents(r))
    /\ UNCHANGED <<envVars, upload_files, store, req>>

\* `if not camera.is_running()`
IsRunningStep ==
    /\ UNCHANGED <<sideVars, camera>>
    /\ pc = "is_running"
    /\ \E probe \in ProbeResults(procRunning), popenOk \in BOOLEAN :
          /\ log' = log \o IsRunningEvents(req.rev, probe, popenOk)
          /\ procRunning' = (procRunning \/ Launches(probe, popenOk))
          /\ pc' = IF IsRunningValue(probe, popenOk) THEN "start_recording"
                   ELSE "run_digicam"
    /\ UNCHANGED <<installed, plugged, dir, nextFile, upload_files, store, req,
                   resp, session>>

\* `camera.run_digicam()`, its response dropped; in routes.py:68 and app.py it
\* stands outside the try block, in the two previews inside it
RunDigicamStep ==
    /\ UNCHANGED <<sideVars, camera>>
    /\ pc = "run_digicam"
    /\ \E probe \in ProbeResults(procRunning), popenOk \in BOOLEAN :
          LET events == RunDigicamEvents(installed, probe, popenOk) IN
          /\ procRunning' = (procRunning \/ (installed /\ Launches(probe, popenOk)))
          /\ IF RunDigicamRaises(installed, probe)
             THEN Respond(IF req.kind = "preview"
                          THEN Response(FALSE, 500, "exception")
                          ELSE Unhandled, events)
             ELSE /\ pc' = "start_recording"
                  /\ log' = log \o events
                  /\ UNCHANGED <<resp, session>>
    /\ UNCHANGED <<installed, plugged, dir, nextFile, upload_files, store, req>>

\* what preview and makeVideo answer when a step of theirs did not succeed
FailureResponse(kind, cam) ==
    IF kind = "preview" THEN Response(FALSE, 501, cam.message)
    ELSE Response(FALSE, 500, "Video recording fail")

\* `camera_response = camera.start_recording()` and the branch on its success
StartRecordingStep ==
    /\ UNCHANGED <<sideVars, camera>>
    /\ pc = "start_recording"
    /\ \E lv \in OnHost(installed, LiveViewResults), sr \in OnHost(installed, GenericResults) :
          LET r == StartRecordingResponse(lv, sr)
              events == StartRecordingEvents(req.rev, lv, sr) IN
          /\ req' = [req EXCEPT !.cam = r, !.start = r]
          /\ IF req.kind = "startVideo"
             THEN Respond(IF r.success
                          THEN Response(TRUE, 200, "Video recording started")
                          ELSE Response(FALSE, 400, "Video recording not started"),
                          events)
             ELSE IF ~r.success
             THEN Respond(FailureResponse(req.kind, r), events)
             ELSE /\ log' = log \o events
                  /\ pc' = IF req.kind = "preview" THEN "snapshot" ELSE "record_sleep"
                  /\ UNCHANGED <<resp, session>>
    /\ UNCHANGED <<envVars, upload_files, store>>

\* `file_config.update_upload_files()`
SnapshotStep ==
    /\ UNCHANGED <<sideVars, camera>>
    /\ pc = "snapshot"
    /\ upload_files' = dir
    /\ req' = [req EXCEPT !.seen = dir]
    /\ log' = Append(log, Event("snapshot", "uploads", NoResult))
    /\ pc' = IF req.kind = "stopVideo" THEN "stop_recording" ELSE "record_sleep"
    /\ UNCHANGED <<envVars, store, resp, session>>

\* `time.sleep(1.5)` of the preview, `time.sleep(duration)` of makeVideo
RecordSleepStep ==
    /\ UNCHANGED <<sideVars, camera>>
    /\ pc = "record_sleep"
    /\ log' = Append(log, SleepEvent(IF req.kind = "preview" THEN "1.5" ELSE "10"))
    /\ pc' = "stop_recording"
    /\ UNCHANGED <<envVars, upload_files, store, req, resp, session>>

\* `camera.stop_recording()`: stopVideo returns its response as it is, preview
\* goes on to wait for the file, makeVideo answers
StopRecordingStep ==
    /\ UNCHANGED <<sideVars, camera>>
    /\ pc = "stop_recording"
    /\ \E st \in OnHost(installed, GenericResults), hd \in OnHost(installed, HideResults) :
          LET r == StopRecordingResponse(st, hd)
              events == StopRecordingEvents(st, hd) IN
          IF req.kind = "stopVideo"
          THEN /\ req' = [req EXCEPT !.cam = r, !.stop = r]
               /\ Respond(r, events)
          ELSE IF ~r.success
          THEN /\ req' = [req EXCEPT !.cam = r, !.stop = r]
               /\ Respond(FailureResponse(req.kind, r), events)
          ELSE IF req.kind = "makeVideo"
          THEN /\ req' = [req EXCEPT !.cam = r, !.stop = r]
               /\ Respond(Response(TRUE, 200, "Video recorded successfully"), events)
          ELSE \* `previous_files=file_config.upload_files`: read at the call
               /\ req' = [req EXCEPT !.cam = r, !.stop = r, !.known = upload_files]
               /\ log' = log \o events
               /\ pc' = "watch"
               /\ UNCHANGED <<resp, session>>
    /\ UNCHANGED <<envVars, upload_files, store>>

\* check_for_new_files(uploads_path, upload_files, 120) over the valid staging
\* directory: true as soon as a poll lists an entry that is not known, false
\* when no poll of the window did (SpecWatch has the loop against the clock)
WatchStep ==
    /\ UNCHANGED <<sideVars, camera>>
    /\ pc = "watch"
    /\ IF dir \ req.known # {}
       THEN /\ pc' = "frame"
            /\ log' = Append(log, Event("watch", "found", NoResult))
            /\ UNCHANGED <<resp, session>>
       ELSE Respond(FailureResponse(req.kind, req.cam),
                    <<Event("watch", "timeout", NoResult)>>)
    /\ UNCHANGED <<envVars, upload_files, store, req>>

\* the newest entry of the staging directory (ids grow with creation time)
Newest(d) == CHOOSE f \in d : \A g \in d : g <= f

\* `file_config.get_newest_file()` and `send_video_frame_as_json(video_path)`:
\* "ok", "noframe" (cap.read() gives no frame), "error" (cv2 raises, and the
\* handler's BasicResponse(sucess=False, ...) raises a ValidationError in turn)
FrameStep ==
    /\ UNCHANGED <<sideVars, camera>>
    /\ pc = "frame"
    /\ \E frame \in {"ok", "noframe", "error"} :
          LET events == <<Event("frame", frame, NoResult)>> IN
          IF dir = {} \/ frame = "error"
          THEN /\ Respond(Response(FALSE, 500, "exception"), events)
               /\ UNCHANGED req
          ELSE /\ req' = [req EXCEPT !.video = Newest(dir),
                            !.cam = IF frame = "ok"
                                    THEN Response(TRUE, 200, "Frame for preview")
                                    ELSE Response(FALSE, 501, "Error reading frame from video")]
               /\ log' = log \o events
               /\ pc' = "delete_all"
               /\ UNCHANGED <<resp, session>>
    /\ UNCHANGED <<envVars, upload_files, store>>

\* BasicFileConfig.delete_all_files: removes the entries one by one; the first
\* os.remove that raises ends it (False, upload_files not refreshed)
DeleteAllStep ==
    /\ UNCHANGED <<sideVars, camera>>
    /\ pc = "delete_all"
    /\ \E removed \in SUBSET dir :
          /\ dir' = dir \ removed
          /\ upload_files' = IF removed = dir THEN {} ELSE upload_files
          /\ LET events == <<Event("delete_all",
                                   IF removed = dir THEN "done" ELSE "failed", NoResult)>> IN
             IF req.kind = "preview"
             THEN Respond(req.cam, events)
             ELSE /\ log' = log \o events
                  /\ pc' = "encrypt"
                  /\ UNCHANGED <<resp, session>>
    /\ UNCHANGED <<procRunning, installed, plugged, nextFile, store, req>>

(***************************************************************************)
(* uploadLastCreated (save_new_file).                                      *)
(***************************************************************************)
\* `request.json.get("crdId", "UNK")`: "invalid" when the body is no JSON object
ParseBodyStep ==
    /\ UNCHANGED <<sideVars, camera>>
    /\ pc = "parse_body"
    /\ \E body \in {"invalid", "missing", "crd"} :
          /\ req' = [req EXCEPT !.body = body]
          /\ IF body = "invalid"
             THEN Respond(Response(FALSE, 500, "exception"), <<>>)
             ELSE /\ pc' = "read_newest"
                  /\ UNCHANGED <<log, resp, session>>
    /\ UNCHANGED <<envVars, upload_files, store>>

\* `video_path = file_config.get_newest_file()` (os.path.join(path, None) raises
\* over an empty directory) and the read of the file
ReadNewestStep ==
    /\ UNCHANGED <<sideVars, camera>>
    /\ pc = "read_newest"
    /\ \E readOk \in BOOLEAN :
          IF dir = {} \/ ~readOk
          THEN /\ pc' = "except_log"
               /\ log' = Append(log, Event("read", "failed", NoResult))
               /\ UNCHANGED req
          ELSE /\ pc' = "delete_all"
               /\ req' = [req EXCEPT !.video = Newest(dir), !.seen = dir,
                                   !.known = upload_files]
               /\ log' = Append(log, Event("read", "done", NoResult))
    /\ UNCHANGED <<envVars, upload_files, store, resp, session>>

\* `security_config.encryptor_backend.encrypt_object(new_video)`
EncryptStep ==
    /\ UNCHANGED <<sideVars, camera>>
    /\ pc = "encrypt"
    /\ \E encOk \in BOOLEAN :
          /\ pc' = IF encOk THEN "insert" ELSE "except_log"
          /\ log' = Append(log, Event("encrypt", IF encOk THEN "done" ELSE "failed", NoResult))
    /\ UNCHANGED <<envVars, upload_files, store, req, resp, session>>

\* `response = video_act.insert_video(video_encrypted)`: it catches what the
\* save raises and answers success=False
InsertStep ==
    /\ UNCHANGED <<sideVars, camera>>
    /\ pc = "insert"
    /\ \E storeOk \in BOOLEAN :
          /\ store' = IF storeOk THEN store \cup {req.video} ELSE store
          /\ req' = [req EXCEPT !.cam =
                        IF ~storeOk THEN Response(FALSE, 500, "exception")
                        ELSE IF req.body = "missing"
                        THEN Response(TRUE, 199, "Video uploaded, but missing parameters")
                        ELSE Response(TRUE, 200, "Video added: successfully")]
          /\ log' = Append(log, Event("insert", IF storeOk THEN "done" ELSE "failed", NoResult))
          /\ pc' = "log_save"
    /\ UNCHANGED <<envVars, upload_files, resp, session>>

\* faulty variant: the test of response.success inverted
UploadResponseInverted(inserted) ==
    IF ~inserted.success
    THEN Response(TRUE, 200, "Video recorded & Saved")
    ELSE Response(TRUE, 501, "Video recorded but not uploaded.")

\* `if response.success:` and the two answers of save_new_file
UploadResponse(inserted) ==
    IF inserted.success
    THEN Response(TRUE, 200, "Video recorded & Saved")
    ELSE Response(TRUE, 501, "Video recorded but not uploaded.")

\* `LogDocument(...).save()` of either branch, and the return
LogSaveStep ==
    /\ UNCHANGED <<sideVars, camera>>
    /\ pc = "log_save"
    /\ \E logOk \in BOOLEAN :
          LET events == <<Event("log_save", IF logOk THEN "done" ELSE "failed", NoResult)>> IN
          IF ~logOk
          THEN /\ pc' = "except_log"
               /\ log' = log \o events
               /\ UNCHANGED <<resp, session>>
          ELSE Respond(UploadResponse(req.cam), events)
    /\ UNCHANGED <<envVars, upload_files, store, req>>

\* the except branch: `LogDocument(...).save()` and the 500 answer
ExceptLogStep ==
    /\ UNCHANGED <<sideVars, camera>>
    /\ pc = "except_log"
    /\ \E logOk \in BOOLEAN :
          Respond(IF logOk THEN Response(FALSE, 500, "exception") ELSE Unhandled,
                  <<Event("except_log", IF logOk THEN "done" ELSE "failed", NoResult)>>)
    /\ UNCHANGED <<envVars, upload_files, store, req>>

(***************************************************************************)
(* check_for_new_files(path_folder, previous_files, timer_seconds) against *)
(* a clock in seconds.  The statements of the function take no time; time  *)
(* passes in time.sleep(10), and entries can be added to the directory at  *)
(* any moment.                                                             *)
(***************************************************************************)
\* `time.sleep(10)` between two polls
PollSeconds == 10

\* "" is the empty path, "missing" names nothing, "file" names a regular file
Paths == {"", "missing", "file", "uploads"}
PathExists(p) == p \in {"file", "uploads"}
PathIsDir(p) == p = "uploads"

\* faulty variant: the path check without os.path.isdir
ValidFolderAnyPath(p) == p # "" /\ PathExists(p)

\* `path_folder and os.path.exists(path_folder) and os.path.isdir(path_folder)`
ValidFolder(p) == p # "" /\ PathExists(p) /\ PathIsDir(p)

\* `while time.time() - start_time < timer_seconds`
LoopContinues(elapsed, timer) == elapsed < timer

\* `new_files = set(current_files) - set(previous_files)`
NewFiles(current, previous) == current \ previous

Entries == 1..MaxEntries

InitWatch ==
    /\ procRunning = FALSE /\ installed = FALSE /\ plugged = FALSE
    /\ dir = {} /\ nextFile = 1 /\ upload_files = {} /\ store = {}
    /\ pc = "idle" /\ req = NoRequest
    /\ camera = [rev |-> "api", is_up |-> FALSE, is_plug |-> FALSE]
    /\ log = <<>> /\ resp = NoResponse /\ session = "none"
    /\ earlier = OutcomesOff /\ call = NoCall
    /\ \E p \in Paths, known \in SUBSET Entries, timer \in 0..MaxTimer,
          entries \in SUBSET Entries :
          watch = [NoWatch EXCEPT !.pc = "called", !.path = p, !.known = known,
                                  !.timer = timer, !.entries = entries]

\* the path check, and `start_time = time.time()`
WatchCheckPath ==
    /\ watch.pc = "called"
    /\ watch' = IF ValidFolder(watch.path)
                THEN [watch EXCEPT !.pc = "loop", !.start = watch.now]
                ELSE [watch EXCEPT !.pc = "returned", !.result = FALSE]
    /\ UNCHANGED <<mainVars, earlier, call>>

\* faulty variant: a single listing, no wait for the timer
WatchPollOnce ==
    /\ watch.pc = "loop"
    /\ watch' = [watch EXCEPT !.pc = "returned", !.polls = @ + 1,
                              !.result = NewFiles(watch.entries, watch.known) # {}]
    /\ UNCHANGED <<mainVars, earlier, call>>

\* one turn of the loop: the test of the while, the listing, the comparison,
\* the test of the timer, and the call of sleep
WatchPoll ==
    /\ watch.pc = "loop"
    /\ watch' =
         IF ~LoopContinues(watch.now - watch.start, watch.timer)
         THEN [watch EXCEPT !.pc = "returned", !.result = FALSE]
         ELSE IF NewFiles(watch.entries, watch.known) # {}
         THEN [watch EXCEPT !.pc = "returned", !.result = TRUE, !.polls = @ + 1]
         ELSE IF watch.now - watch.start >= watch.timer
         THEN [watch EXCEPT !.pc = "returned", !.result = FALSE, !.polls = @ + 1]
         ELSE [watch EXCEPT !.pc = "sleeping", !.polls = @ + 1, !.slept = @ + 1,
                            !.wake = watch.now + PollSeconds]
    /\ UNCHANGED <<mainVars, earlier, call>>

\* a second of the sleep passes
WatchTick ==
    /\ watch.pc = "sleeping"
    /\ watch.now < watch.wake
    /\ watch' = [watch EXCEPT !.now = @ + 1]
    /\ UNCHANGED <<mainVars, earlier, call>>

\* the sleep returns
WatchWake ==
    /\ watch.pc = "sleeping"
    /\ watch.now = watch.wake
    /\ watch' = [watch EXCEPT !.pc = "loop"]
    /\ UNCHANGED <<mainVars, earlier, call>>

\* an entry is added to the directory while the call runs
WatchEntryAdded(f) ==
    /\ watch.pc \in {"called", "loop", "sleeping"}
    /\ f \notin watch.entries
    /\ watch' = [watch EXCEPT !.entries = @ \cup {f}, !.changed = TRUE,
                              !.arrived = IF f \notin watch.known /\ @ = -1
                                          THEN watch.now ELSE @]
    /\ UNCHANGED <<mainVars, earlier, call>>

WatchNext ==
    \/ WatchCheckPath
    \/ WatchPoll
    \/ WatchTick
    \/ WatchWake
    \/ \E f \in Entries : WatchEntryAdded(f)

SpecWatch == InitWatch /\ [][WatchNext]_vars

Next ==
    \/ ConstructCamera
    \/ \E kind \in Kinds, rev \in Revisions : BeginRequest(kind, rev)
    \/ IsCameraStep
    \/ IsRunningStep
    \/ RunDigicamStep
    \/ StartRecordingStep
    \/ SnapshotStep
    \/ RecordSleepStep
    \/ StopRecordingStep
    \/ WatchStep
    \/ FrameStep
    \/ DeleteAllStep
    \/ ParseBodyStep
    \/ ReadNewestStep
    \/ EncryptStep
    \/ InsertStep
    \/ LogSaveStep
    \/ ExceptLogStep
    \/ RequestEnds
    \/ FileArrives
    \/ CableChanges
    \/ ControllerExits

Spec == Init /\ [][Next]_vars

SpecOutcomes == InitOutcomes /\ [][Next]_vars

(***************************************************************************)
(* Properties of check_for_new_files (SpecWatch).                          *)
(***************************************************************************)
\* the call runs over a valid directory whose listing never left the snapshot
WatchUnchangedListing ==
    /\ watch.path = "uploads"
    /\ watch.entries = watch.known
    /\ ~watch.changed

\* C4: over a valid directory, when an entry that is not in the snapshot is
\* added before the timeout expires, the call returns true, and it returns
\* within one poll interval of the arrival of the entry.
WatcherSeesArrival ==
    (/\ watch.pc = "returned"
     /\ watch.path = "uploads"
     /\ watch.arrived >= 0
     /\ watch.arrived - watch.start < watch.timer)
    => /\ watch.result = TRUE
       /\ watch.now - watch.arrived <= PollSeconds

\* C5: over a valid directory whose listing stays equal to the snapshot, the
\* call is over before timeout + one poll interval has passed, and it returns
\* false, not before the timeout has elapsed.
WatcherTimesOut ==
    WatchUnchangedListing =>
        /\ watch.pc \in {"loop", "sleeping"}
              => watch.now - watch.start < watch.timer + PollSeconds
        /\ watch.pc = "returned"
              => /\ watch.result = FALSE
                 /\ watch.now - watch.start >= watch.timer
                 /\ watch.now - watch.start <= watch.timer + PollSeconds

\* a call over an unchanged listing that slept twice before it gave up
WatcherTimesOutWitness ==
    /\ WatchUnchangedListing
    /\ watch.pc = "returned"
    /\ watch.known # {}
    /\ watch.timer > PollSeconds
    /\ watch.slept >= 2
    /\ watch.result = FALSE

\* C6: called with an empty path, a path that names nothing or a path that
\* names a regular file, the call returns false at once: no listing, no
\* sleep, no time spent.
WatcherRejectsPath ==
    (/\ watch.pc \notin {"off", "called"}
     /\ (watch.path = "" \/ ~PathExists(watch.path) \/ ~PathIsDir(watch.path)))
    => /\ watch.pc = "returned"
       /\ watch.result = FALSE
       /\ watch.polls = 0
       /\ watch.slept = 0
       /\ watch.now = 0

\* a call on a regular file that returned, with a positive timer and entries
\* that a listing would have reported as new
WatcherRejectsPathWitness ==
    /\ watch.pc = "returned"
    /\ watch.path = "file"
    /\ watch.timer > 0
    /\ watch.entries \ watch.known # {}
    /\ watch.result = FALSE

(***************************************************************************)
(* Properties of the endpoints and of the camera controller (Spec).        *)
(***************************************************************************)
\* the upload that follows an accepted start and an accepted stop, finds one
\* file more than the stop's snapshot, and whose read, encryption, video
\* insert and log write all succeeded
ScenarioBPath ==
    /\ pc = "done"
    /\ req.kind = "upload"
    /\ req.prior = "stopped"
    /\ Cardinality(req.seen \ req.known) = 1
    /\ Did(log, "read", "done")
    /\ Did(log, "encrypt", "done")
    /\ Did(log, "insert", "done")
    /\ Did(log, "log_save", "done")

\* C1: Scenario B: start accepted, stop accepted, exactly one new file in the
\* staging directory, encryption and the writes to the store succeeding: the
\* upload answers success = true with status 200.
ScenarioB ==
    ScenarioBPath => (resp.success /\ resp.status_code = 200)

\* Scenario B has run to its end, the removal of the staged file included
ScenarioBWitness ==
    /\ ScenarioBPath
    /\ Did(log, "delete_all", "done")
    /\ req.video \in store
    /\ resp.message = "Video recorded & Saved"

\* C2: Scenario A: a start or preview request that arrives while the controller
\* (installed on the host) is not running and no camera is connected launches
\* the controller, finds no camera, issues neither LiveViewWnd_Show nor
\* StartRecord, and answers success = false, status 400, "... not connected".
ScenarioA ==
    (/\ pc = "done"
     /\ installed
     /\ req.kind \in {"startVideo", "preview"}
     /\ ~plugged
     /\ Len(log) > 0
     /\ ~log[1].up)
    => /\ Launched(log)
       /\ \E i \in 1..Len(log) :
             IsCmd(log[i], "list cameras") /\ ~IsCameraValue(log[i].res)
       /\ ~Issued(log, "LiveViewWnd_Show")
       /\ ~Issued(log, "StartRecord")
       /\ ~resp.success
       /\ resp.status_code = 400
       /\ resp.message \in NotConnectedMessages

\* C3: Scenario C: the recording was read from disk and insert_video reported
\* failure: the upload answers success = true, status 501, "... not uploaded"
\* (neither the 200 of the full success nor the 500 of the failure).
ScenarioC ==
    (/\ pc = "done"
     /\ req.kind = "upload"
     /\ Did(log, "read", "done")
     /\ Did(log, "insert", "failed"))
    => /\ resp.success
       /\ resp.status_code = 501
       /\ resp.message \in NotUploadedMessages

\* C7: StartRecord is issued only after a LiveViewWnd_Show whose output holds
\* an accepted marker and not the disconnected-camera marker; a live-view
\* output with "no camera is connected" (an accepted marker beside it or
\* not), or with no accepted marker, gives success = false and no StartRecord;
\* success = true only when StartRecord itself was accepted.
StartRecordingOrder ==
    /\ \A i \in 1..Len(log) :
          IsCmd(log[i], "StartRecord") =>
              \E j \in 1..(i - 1) :
                  /\ IsCmd(log[j], "LiveViewWnd_Show")
                  /\ log[j].res.spawn
                  /\ NoCameraMarker \notin log[j].res.out
                  /\ (EmptyMarker \in log[j].res.out \/ NullMarker \in log[j].res.out)
    /\ \A j \in 1..Len(log) :
          (/\ IsCmd(log[j], "LiveViewWnd_Show")
           /\ \/ NoCameraMarker \in log[j].res.out
              \/ (EmptyMarker \notin log[j].res.out /\ NullMarker \notin log[j].res.out))
          => (~Issued(log, "StartRecord") /\ ~req.start.success)
    /\ req.start.success => AcceptedEmpty(log, "StartRecord")

\* the live view answered with the disconnected-camera marker and an accepted
\* marker together, and start_recording failed
StartRecordingOrderWitness ==
    /\ pc = "done"
    /\ req.kind = "startVideo"
    /\ \E j \in 1..Len(log) :
          /\ IsCmd(log[j], "LiveViewWnd_Show")
          /\ log[j].res.out = {NoCameraMarker, EmptyMarker}
    /\ ~Issued(log, "StartRecord")
    /\ ~req.start.success
    /\ resp.status_code = 400

\* C8: once StopRecord has been accepted, stop_recording answers success =
\* true with status 200, whatever became of LiveViewWnd_Hide.
StopSurvivesHide ==
    AcceptedEmpty(log, "StopRecord")
        => (req.stop.success /\ req.stop.status_code = 200)

EnsureRunningFirst ==
    (installed /\ req.kind \in {"startVideo", "stopVideo", "preview", "makeVideo"}) =>
        \A i \in 1..Len(log) :
            log[i].ev = "cmd" => \E j \in 1..(i - 1) : log[j].ev = "return"

\* C11: whenever the upload answers success = true with status 200, the
\* recorded file has been read and is no longer in the staging directory,
\* also when delete_all_files failed.
UploadLeavesNothing ==
    (pc = "done" /\ req.kind = "upload" /\ resp.success /\ resp.status_code = 200)
    => (Did(log, "read", "done") /\ req.video \notin dir)

\* C12: two requests (start, stop, preview, upload) that end with different
\* outcomes among NotConnected, RecordingRejected, FileNotArrived and
\* PersistenceFailed carry different status codes.
OutcomesDistinctStatus ==
    (/\ pc = "done" /\ ~resp.unhandled
     /\ req.kind \in {"startVideo", "stopVideo", "preview", "upload"}
     /\ earlier.outcome # "none"
     /\ Outcome(req.kind, log) \notin {"none", earlier.outcome})
    => resp.status_code # earlier.status

\* C13: in the upload, a failure of the encryption or of the storage step
\* after the recorded file was read is answered with status 501 (here with
\* every LogDocument.save() of the request succeeding).
PersistenceFailureIs501 ==
    (/\ pc = "done" /\ req.kind = "upload"
     /\ Did(log, "read", "done")
     /\ ~Did(log, "log_save", "failed") /\ ~Did(log, "except_log", "failed")
     /\ (Did(log, "encrypt", "failed") \/ Did(log, "insert", "failed")))
    => (~resp.unhandled /\ resp.status_code = 501)

\* the messages the code attaches to a step that succeeded
SuccessMessages ==
    {"CameraControl.exe is running", "Camera: Recording started",
     "Camera: Recording stopped", "Video recording started",
     "Video recorded successfully", "Frame for preview",
     "Video recorded & Saved", "Video added: successfully"}

\* the messages the code attaches to a step that failed
FailureMessages ==
    {"CameraControl.exe is not running", "CameraControl.exe is not installed",
     "Camera: Recording failed - Error", "Camera: Recording failed - Status",
     "Camera: LiveViewWnd failed - Status", "Error: No camera is connected",
     "Camera: Recording stop failed - Error", "Camera: Recording stop failed - Status",
     "Video recording not started", "Video recording fail",
     "Error reading frame from video", "exception"}
    \cup NotConnectedMessages \cup NotUploadedMessages

\* C15: the message of every answer agrees with its success flag: success = true
\* never carries a failure message and success = false never carries the
\* message of a step that succeeded.
MessageAgreesWithFlag ==
    (pc = "done" /\ ~resp.unhandled)
    => /\ resp.success => resp.message \notin FailureMessages
       /\ ~resp.success => resp.message \notin SuccessMessages

(***************************************************************************)
(* The public methods of the Camera object called directly.  `call.how`    *)
(* tells how the call ended: "returned" (a BasicResponse in call.ret),     *)
(* "raised" (an exception reaches the caller) or "nothing" (the method     *)
(* falls off its end and returns None).                                    *)
(***************************************************************************)
\* close_program exists in api/hardware/cam.py only
CameraOps(rev) ==
    {"run_digicam", "open_program", "config_camera", "capture", "capture_video",
     "start_recording", "stop_recording"}
        \cup (IF rev = "api" THEN {"close_program"} ELSE {})

\* the setters of config_camera in the order of its body, by the property
\* each one sets
ConfigFields ==
    <<"Iso", "aperture", "exposurecompensation", "shutterspeed", "autofocus",
      "compressionsetting", "whitebalance", "session.Counter", "session.name",
      "transfer", "session.folder">>

\* set_autofocus only stores the capture command; the setters of
\* api/hardware/cam.py that exist call self.__set_cmd, which does not, and the
\* others are missing themselves: nothing is sent in that revision
SendsCommand(rev, field) == rev = "app" /\ field # "autofocus"

\* __set_cmd / run_cmd: subprocess.check_output raises (non-zero exit, no
\* shell), or the output holds "null" (0 is returned) or does not (-1)
SetResults == {"applied", "rejected", "raises"}

\* the setter raises: AttributeError in api/hardware/cam.py, and what
\* check_output raises
SetterRaises(rev, field, res) ==
    rev = "api" \/ (SendsCommand(rev, field) /\ res = "raises")

Returned(c, r) == [c EXCEPT !.pc = "returned", !.how = "returned", !.ret = r]
Raised(c) == [c EXCEPT !.pc = "returned", !.how = "raised"]
ReturnedNothing(c) == [c EXCEPT !.pc = "returned", !.how = "nothing"]

InitCamera ==
    /\ procRunning \in BOOLEAN /\ installed \in BOOLEAN /\ plugged \in BOOLEAN
    /\ dir = {} /\ nextFile = 1 /\ upload_files = {} /\ store = {}
    /\ pc = "idle" /\ req = NoRequest
    /\ log = <<>> /\ resp = NoResponse /\ session = "none"
    /\ watch = NoWatch /\ earlier = OutcomesOff
    /\ camera \in [rev : Revisions, is_up : {FALSE}, is_plug : {FALSE}]
    /\ \E op \in CameraOps(camera.rev) :
          call = [NoCall EXCEPT !.op = op, !.rev = camera.rev, !.pc = "called", !.at = 1]

\* everything but the process table and the call
cameraFrame == <<installed, plugged, dir, nextFile, upload_files, store, pc, req,
                 log, resp, session, watch, camera, earlier>>

\* Camera.run_digicam
RunDigicamCall ==
    /\ call.op = "run_digicam" /\ call.pc = "called"
    /\ \E probe \in ProbeResults(procRunning), popenOk \in BOOLEAN :
          /\ procRunning' = (procRunning \/ (installed /\ Launches(probe, popenOk)))
          /\ call' = IF RunDigicamRaises(installed, probe)
                     THEN Raised(call)
                     ELSE Returned(call, RunDigicamResponse(installed, probe, popenOk))
    /\ UNCHANGED cameraFrame

\* Camera.open_program
OpenProgramCall ==
    /\ call.op = "open_program" /\ call.pc = "called"
    /\ \E popenOk \in (IF installed THEN BOOLEAN ELSE {FALSE}) :
          /\ procRunning' = (procRunning \/ popenOk)
          /\ call' = Returned(call, OpenProgramResponse(popenOk))
    /\ UNCHANGED cameraFrame

\* Camera.close_program: the scan and the kill stand inside its try block
CloseProgramResponse(probe, killOk) ==
    IF probe = "error" \/ (probe = "found" /\ ~killOk)
    THEN Response(FALSE, 500, "CameraControl.exe is not running")
    ELSE IF probe = "found"
    THEN Response(TRUE, 200, "CameraControl.exe is now not running")
    ELSE Response(TRUE, 200, "CameraControl.exe is not running")

\* faulty variant: a failing kill brings the killed processes back
LeftAfterKillsRolledBack(procs, fails) == IF fails = 0 THEN 0 ELSE procs

\* the processes left when the kill of the fails-th one raises (0: none does)
\* and nothing is killed after it
LeftAfterKills(procs, fails) == IF fails = 0 THEN 0 ELSE procs - (fails - 1)

\* procs processes carry the name; the loop kills them in turn
CloseProgramCall ==
    /\ call.op = "close_program" /\ call.pc = "called"
    /\ \E probe \in ProbeResults(procRunning),
          procs \in (IF procRunning THEN 1..MaxProcs ELSE {0}) :
       \E fails \in (IF probe = "found" THEN 0..procs ELSE {0}) :
          LET left == IF probe = "found" THEN LeftAfterKills(procs, fails) ELSE procs IN
          /\ procRunning' = (left > 0)
          /\ call' = Returned([call EXCEPT !.probe = probe, !.procs = procs,
                                           !.fails = fails, !.left = left],
                              CloseProgramResponse(probe, fails = 0))
    /\ UNCHANGED cameraFrame

\* faulty variant: when a setter raises, the fields applied before it are set
\* back, one more set command each
ConfigCameraStepRestores ==
    /\ call.op = "config_camera" /\ call.pc = "called"
    /\ call.at <= Len(ConfigFields)
    /\ LET field == ConfigFields[call.at] IN
       \E res \in (IF SendsCommand(call.rev, field) THEN SetResults ELSE {"none"}) :
          LET sent == IF SendsCommand(call.rev, field)
                      THEN Append(call.sent, [cmd |-> field, res |-> res])
                      ELSE call.sent IN
          call' = IF SetterRaises(call.rev, field, res)
                  THEN Returned([call EXCEPT !.sent = sent \o SelectSeq(call.sent,
                                        LAMBDA e : e.res = "applied")],
                                Response(FALSE, 500, "Camera configuration failed"))
                  ELSE [call EXCEPT !.sent = sent, !.at = call.at + 1]
    /\ UNCHANGED <<procRunning, cameraFrame>>

\* Camera.config_camera, one setter of its body
ConfigCameraStep ==
    /\ call.op = "config_camera" /\ call.pc = "called"
    /\ call.at <= Len(ConfigFields)
    /\ LET field == ConfigFields[call.at] IN
       \E res \in (IF SendsCommand(call.rev, field) THEN SetResults ELSE {"none"}) :
          LET sent == IF SendsCommand(call.rev, field)
                      THEN Append(call.sent, [cmd |-> field, res |-> res])
                      ELSE call.sent IN
          call' = IF SetterRaises(call.rev, field, res)
                  THEN Returned([call EXCEPT !.sent = sent],
                                Response(FALSE, 500, "Camera configuration failed"))
                  ELSE [call EXCEPT !.sent = sent, !.at = call.at + 1]
    /\ UNCHANGED <<procRunning, cameraFrame>>

\* Camera.config_camera: the return after the last setter
ConfigCameraReturn ==
    /\ call.op = "config_camera" /\ call.pc = "called"
    /\ call.at > Len(ConfigFields)
    /\ call' = Returned(call, Response(TRUE, 200, "Camera configuration successful"))
    /\ UNCHANGED <<procRunning, cameraFrame>>

\* Camera.capture with a location given: the command, then the read and the
\* removal of the image, all inside its try block
CaptureResponse(r, readOk, removeOk) ==
    IF ~r.spawn THEN Response(FALSE, 500, "Camera: Image capture failed - Error")
    ELSE IF r.rc # 0 THEN Response(FALSE, 500, "Camera: Image capture failed - Status")
    ELSE IF ~readOk \/ ~removeOk
    THEN Response(FALSE, 500, "Camera: Image capture failed - Error")
    ELSE Response(TRUE, 200, "Camera: Image capture - Location")

\* the contents a file at the target path can have; 0 stands for no file
ImageContents == {1, 2}

\* faulty variant: the image is read and returned but never removed
CaptureFileOpsKeepsFile(r, file, readOk, removeOk) ==
    IF ~r.spawn \/ r.rc # 0 \/ ~readOk
    THEN [did |-> {}, data |-> 0, disk |-> file]
    ELSE [did |-> {"read"}, data |-> file, disk |-> file]

\* what capture does to the file at the target path, the payload of its
\* DataResponse (0: none) and what is on disk when it returns
CaptureFileOps(r, file, readOk, removeOk) ==
    IF ~r.spawn \/ r.rc # 0 \/ ~readOk
    THEN [did |-> {}, data |-> 0, disk |-> file]
    ELSE IF ~removeOk
    THEN [did |-> {"read"}, data |-> 0, disk |-> file]
    ELSE [did |-> {"read", "remove"}, data |-> file, disk |-> 0]

\* the command leaves a file at the target path or not; open() raises when
\* there is none
CaptureCall ==
    /\ call.op = "capture" /\ call.pc = "called"
    /\ \E r \in OnHost(installed, GenericResults), file \in ImageContents \cup {0},
          canRead \in BOOLEAN, removeOk \in BOOLEAN :
          LET readOk == file # 0 /\ canRead
              ops == CaptureFileOps(r, file, readOk, removeOk) IN
          call' = Returned([call EXCEPT !.sent = <<[cmd |-> "Capture", res |-> "sent"]>>,
                                        !.result = r, !.file = file,
                                        !.readable = readOk, !.removable = removeOk,
                                        !.did = ops.did, !.data = ops.data,
                                        !.disk = ops.disk],
                           CaptureResponse(r, readOk, removeOk))
    /\ UNCHANGED <<procRunning, cameraFrame>>

\* the commands capture_video sends through run_cmd, in order
VideoCommands == <<"LiveViewWnd_Show", "StartRecord", "StopRecord", "LiveViewWnd_Hide">>

\* Camera.capture_video: show_live_view and run_cmd are missing in
\* api/hardware/cam.py; in camera/cam.py run_cmd raises what check_output
\* raises and its return value is dropped.  The except handler builds
\* BasicResponse(sucess=True, ...), which pydantic refuses: the call raises.
\* After the commands, `if check_for_new_files(location):` has no else.
CaptureVideoCall ==
    /\ call.op = "capture_video" /\ call.pc = "called"
    /\ \E failsAt \in 0..Len(VideoCommands), arrived \in BOOLEAN :
          LET n == IF call.rev = "api" THEN 0
                   ELSE IF failsAt = 0 THEN Len(VideoCommands) ELSE failsAt
              sent == [i \in 1..n |->
                         [cmd |-> VideoCommands[i],
                          res |-> IF i = failsAt THEN "raises" ELSE "sent"]]
              c == [call EXCEPT !.sent = sent] IN
          call' = IF call.rev = "api" \/ failsAt # 0
                  THEN Raised(c)
                  ELSE IF arrived
                  THEN Returned(c, Response(TRUE, 200, "Video capture successfully"))
                  ELSE ReturnedNothing(c)
    /\ UNCHANGED <<procRunning, cameraFrame>>

\* Camera.start_recording
StartRecordingCall ==
    /\ call.op = "start_recording" /\ call.pc = "called"
    /\ \E lv \in OnHost(installed, LiveViewResults), sr \in OnHost(installed, GenericResults) :
          call' = Returned(call, StartRecordingResponse(lv, sr))
    /\ UNCHANGED <<procRunning, cameraFrame>>

\* Camera.stop_recording
StopRecordingCall ==
    /\ call.op = "stop_recording" /\ call.pc = "called"
    /\ \E st \in OnHost(installed, GenericResults), hd \in OnHost(installed, HideResults) :
          call' = Returned(call, StopRecordingResponse(st, hd))
    /\ UNCHANGED <<procRunning, cameraFrame>>

CameraNext ==
    \/ RunDigicamCall
    \/ OpenProgramCall
    \/ CloseProgramCall
    \/ ConfigCameraStep
    \/ ConfigCameraReturn
    \/ CaptureCall
    \/ CaptureVideoCall
    \/ StartRecordingCall
    \/ StopRecordingCall

SpecCamera == InitCamera /\ [][CameraNext]_vars

\* C14: every public method of the camera controller ends by returning a
\* structured outcome, whatever the external command did: it neither raises
\* nor returns nothing.
StructuredOutcome ==
    call.pc = "returned" => call.how = "returned"

\* C16: config_camera stops at the first set command that fails, sends no
\* later field and answers success = false; it answers success = true only
\* when every field was applied.
ConfigAbortsOnFirstFailure ==
    (call.op = "config_camera" /\ call.pc = "returned")
    => /\ \A i \in 1..Len(call.sent) :
              call.sent[i].res # "applied" => (i = Len(call.sent) /\ ~call.ret.success)
       /\ call.ret.success =>
              \A f \in 1..Len(ConfigFields) :
                  ConfigFields[f] # "autofocus" =>
                      \E i \in 1..Len(call.sent) :
                          call.sent[i].cmd = ConfigFields[f] /\ call.sent[i].res = "applied"

(***************************************************************************)
(* The newest/oldest lookups of utils/files.py over one directory.  The    *)
(* directory is the list os.listdir gives (any order), each entry with its *)
(* creation time; values are tagged with what they are: a file name, a     *)
(* creation time, a path, or None.                                         *)
(***************************************************************************)
Names == 1..MaxNames
Ctimes == 1..MaxCtime

NoneValue == [type |-> "None", v |-> 0]
NameValue(n) == [type |-> "name", v |-> n]
TimeValue(t) == [type |-> "time", v |-> t]
\* os.path.join(uploads_path, name)
PathValue(n) == [type |-> "path", v |-> n]

LookupOps ==
    {"get_newest_file_in_folder", "get_older_file_in_folder", "get_last_created_file",
     "get_newest_file"}

\* the directory listings: no name twice
RECURSIVE Listings(_)
Listings(k) ==
    IF k = 0 THEN {<<>>}
    ELSE LET shorter == Listings(k - 1) IN
         shorter \cup
         {Append(l, [name |-> n, ctime |-> t]) :
            l \in {x \in shorter : Len(x) = k - 1}, n \in Names, t \in Ctimes}

NoRepeat(l) == \A i, j \in 1..Len(l) : i # j => l[i].name # l[j].name
DistinctCtimes(l) == \A i, j \in 1..Len(l) : i # j => l[i].ctime # l[j].ctime

\* x sorts before y: by creation time, descending when reverse is set
Before(x, y, reverse) == IF reverse THEN x.ctime > y.ctime ELSE x.ctime < y.ctime

\* x goes behind every entry that sorts before it or equal to it (stable)
RECURSIVE InsertByTime(_, _, _)
InsertByTime(x, l, reverse) ==
    IF l = <<>> THEN <<x>>
    ELSE IF Before(x, l[1], reverse) THEN <<x>> \o l
    ELSE <<l[1]>> \o InsertByTime(x, Tail(l), reverse)

\* sorted(l, key=lambda x: x[1], reverse=reverse)
RECURSIVE SortByTime(_, _)
SortByTime(l, reverse) ==
    IF l = <<>> THEN <<>>
    ELSE InsertByTime(l[Len(l)], SortByTime(SubSeq(l, 1, Len(l) - 1), reverse), reverse)

\* faulty variant: the sort without reverse=True
SortedByTimeAscending(l) == SortByTime(l, FALSE)

\* sorted(files_with_times, key=lambda x: x[1], reverse=True)
SortedByTime(l) == SortByTime(l, TRUE)

\* `sorted_files[0][0] if sorted_files else None`
NewestPick(sorted) == IF sorted = <<>> THEN NoneValue ELSE NameValue(sorted[1].name)
\* `sorted_files[-1][-1] if sorted_files else None`: the last field of the
\* last pair, which is its creation time
OlderPick(sorted) ==
    IF sorted = <<>> THEN NoneValue ELSE TimeValue(sorted[Len(sorted)].ctime)

NoLookup ==
    [op |-> "none", pc |-> "off", valid |-> FALSE, statOk |-> FALSE,
     listing |-> <<>>, sorted |-> <<>>, how |-> "pending", ret |-> NoneValue]

InitLookup ==
    /\ procRunning = FALSE /\ installed = FALSE /\ plugged = FALSE
    /\ dir = {} /\ nextFile = 1 /\ upload_files = {} /\ store = {}
    /\ pc = "idle" /\ req = NoRequest
    /\ camera = [rev |-> "api", is_up |-> FALSE, is_plug |-> FALSE]
    /\ log = <<>> /\ resp = NoResponse /\ session = "none"
    /\ watch = NoWatch /\ earlier = OutcomesOff
    /\ \E op \in LookupOps, valid \in BOOLEAN, statOk \in BOOLEAN,
          l \in {x \in Listings(MaxNames) : NoRepeat(x)} :
          call = [NoLookup EXCEPT !.op = op, !.pc = "called", !.valid = valid,
                                  !.statOk = statOk,
                                  !.listing = IF valid THEN l ELSE <<>>]

\* the inner lookup ends with v: the caller has it, or the wrapper goes on
LookupEnds(c, v) ==
    IF c.op = "get_newest_file"
    THEN [c EXCEPT !.pc = "inner", !.ret = v]
    ELSE [c EXCEPT !.pc = "returned", !.how = "returned", !.ret = v]

\* the path check, then os.listdir and os.path.getctime of every entry; what
\* they raise is caught and None returned
LookupList ==
    /\ call.pc = "called"
    /\ call' = IF ~call.valid \/ ~call.statOk
               THEN LookupEnds(call, NoneValue)
               ELSE [call EXCEPT !.pc = "listed"]
    /\ UNCHANGED <<mainVars, watch, earlier>>

\* the sort by creation time, newest first
LookupSort ==
    /\ call.pc = "listed"
    /\ call' = [call EXCEPT !.pc = "sorted", !.sorted = SortedByTime(call.listing)]
    /\ UNCHANGED <<mainVars, watch, earlier>>

\* the return statement of the lookup
LookupPick ==
    /\ call.pc = "sorted"
    /\ call' = LookupEnds(call, IF call.op = "get_older_file_in_folder"
                                THEN OlderPick(call.sorted)
                                ELSE NewestPick(call.sorted))
    /\ UNCHANGED <<mainVars, watch, earlier>>

\* BasicFileConfig.get_newest_file: os.path.join(uploads_path, <the lookup>),
\* a TypeError when the lookup gave None
GetNewestFileJoin ==
    /\ call.pc = "inner"
    /\ call' = IF call.ret = NoneValue
               THEN [call EXCEPT !.pc = "returned", !.how = "raised"]
               ELSE [call EXCEPT !.pc = "returned", !.how = "returned",
                                 !.ret = PathValue(call.ret.v)]
    /\ UNCHANGED <<mainVars, watch, earlier>>

LookupNext ==
    \/ LookupList
    \/ LookupSort
    \/ LookupPick
    \/ GetNewestFileJoin

SpecLookup == InitLookup /\ [][LookupNext]_vars

\* the listing was read in full and its entries have pairwise distinct
\* creation times
ReadDistinct ==
    /\ call.pc = "returned" /\ call.valid /\ call.statOk
    /\ call.listing # <<>> /\ DistinctCtimes(call.listing)

\* C17: over a directory whose entries have pairwise distinct creation times,
\* get_newest_file_in_folder returns the name of the entry with the greatest
\* creation time.
NewestIsGreatest ==
    (call.op = "get_newest_file_in_folder" /\ ReadDistinct)
    => /\ call.how = "returned"
       /\ \E i \in 1..Len(call.listing) :
             /\ call.ret = NameValue(call.listing[i].name)
             /\ \A j \in 1..Len(call.listing) :
                    call.listing[j].ctime <= call.listing[i].ctime

\* the newest of several entries is found although os.listdir did not list
\* it first
NewestIsGreatestWitness ==
    /\ call.op = "get_newest_file_in_folder" /\ ReadDistinct
    /\ Len(call.listing) = MaxNames
    /\ call.ret = NameValue(call.listing[Len(call.listing)].name)

\* C18: over a directory whose entries have pairwise distinct creation times,
\* get_older_file_in_folder returns the file name of the entry with the
\* smallest creation time.
OlderIsSmallestName ==
    (call.op = "get_older_file_in_folder" /\ ReadDistinct)
    => /\ call.how = "returned"
       /\ \E i \in 1..Len(call.listing) :
             /\ call.ret = NameValue(call.listing[i].name)
             /\ \A j \in 1..Len(call.listing) :
                    call.listing[i].ctime <= call.listing[j].ctime

\* C19: over an empty directory every lookup, the wrapper
\* BasicFileConfig.get_newest_file included, returns None and raises nothing.
EmptyGivesNone ==
    (call.pc = "returned" /\ call.valid /\ call.statOk /\ call.listing = <<>>)
    => (call.how = "returned" /\ call.ret = NoneValue)

(***************************************************************************)
(* ObjectEncryptor: encrypt_object pickles the payload and encrypts the    *)
(* pickle with the Fernet key, decrypt_object decrypts and unpickles.      *)
(* Byte strings are sequences of 0..255.  The pickle of a bytes object is  *)
(* its framing (PROTO 4, SHORT_BINBYTES, length, data, MEMOIZE, STOP); a   *)
(* Fernet token is the version byte, the random IV, the keyed encryption   *)
(* of the message and the keyed authentication tag over all of these.      *)
(***************************************************************************)
Modulus == 256
\* the bytes payloads are made of, the keys, and the IVs os.urandom draws
PayloadBytes == {0, 1, Modulus - 1}
Keys == {1, Modulus - 1}
Ivs == {0, Modulus - 1}

RECURSIVE ByteStrings(_)
ByteStrings(k) ==
    IF k = 0 THEN {<<>>}
    ELSE LET shorter == ByteStrings(k - 1) IN
         shorter \cup {Append(x, b) : x \in {y \in shorter : Len(y) = k - 1},
                                      b \in PayloadBytes}

Payloads == ByteStrings(MaxLen)

RECURSIVE SumBytes(_)
SumBytes(x) == IF x = <<>> THEN 0 ELSE (x[1] + SumBytes(Tail(x))) % Modulus

\* pickle.dumps(data) of a bytes object
PickleDumps(x) == <<128, 4, 67, Len(x)>> \o x \o <<148, 46>>

\* faulty variant: the serialized bytes handed back as they are
PickleLoadsRaw(p) == [ok |-> TRUE, v |-> p]

\* pickle.loads(serialized_data): the bytes object inside the framing, an
\* error when the framing is not there
PickleLoads(p) ==
    IF /\ Len(p) >= 6
       /\ p[1] = 128 /\ p[2] = 4 /\ p[3] = 67
       /\ Len(p) = p[4] + 6
       /\ p[Len(p) - 1] = 148 /\ p[Len(p)] = 46
    THEN [ok |-> TRUE, v |-> SubSeq(p, 5, Len(p) - 2)]
    ELSE [ok |-> FALSE, v |-> <<>>]

\* the authentication tag of a token body under a key
Tag(key, body) == (SumBytes(body) + key) % Modulus

\* Fernet(key).encrypt(m) with the IV drawn
FernetEncrypt(key, iv, m) ==
    LET body == <<128, iv>> \o [i \in 1..Len(m) |-> (m[i] + key + iv + i) % Modulus] IN
    Append(body, Tag(key, body))

\* Fernet(key).decrypt(token): InvalidToken unless version and tag are right
FernetDecrypt(key, t) ==
    IF /\ Len(t) >= 3 /\ t[1] = 128
       /\ t[Len(t)] = Tag(key, SubSeq(t, 1, Len(t) - 1))
    THEN [ok |-> TRUE,
          v |-> [i \in 1..(Len(t) - 3) |->
                    (t[i + 2] + 3 * Modulus - key - t[2] - i) % Modulus]]
    ELSE [ok |-> FALSE, v |-> <<>>]

NoCrypto ==
    [op |-> "none", pc |-> "off", key |-> 0, x |-> <<>>, serialized |-> <<>>,
     token |-> <<>>, decrypted |-> <<>>, how |-> "pending", out |-> <<>>]

InitCrypto ==
    /\ procRunning = FALSE /\ installed = FALSE /\ plugged = FALSE
    /\ dir = {} /\ nextFile = 1 /\ upload_files = {} /\ store = {}
    /\ pc = "idle" /\ req = NoRequest
    /\ camera = [rev |-> "api", is_up |-> FALSE, is_plug |-> FALSE]
    /\ log = <<>> /\ resp = NoResponse /\ session = "none"
    /\ watch = NoWatch /\ earlier = OutcomesOff
    /\ \E key \in Keys, x \in Payloads :
          call = [NoCrypto EXCEPT !.op = "encrypt_object", !.pc = "called",
                                  !.key = key, !.x = x]

\* encrypt_object: `serialized_data = pickle.dumps(data)`
EncryptDumps ==
    /\ call.op = "encrypt_object" /\ call.pc = "called"
    /\ call' = [call EXCEPT !.pc = "serialized", !.serialized = PickleDumps(call.x)]
    /\ UNCHANGED <<mainVars, watch, earlier>>

\* encrypt_object: `cipher_text = self.cipher_suite.encrypt(serialized_data)`
\* and the return; the caller hands the token to decrypt_object
EncryptCipher ==
    /\ call.op = "encrypt_object" /\ call.pc = "serialized"
    /\ \E iv \in Ivs :
          call' = [call EXCEPT !.op = "decrypt_object", !.pc = "called",
                               !.token = FernetEncrypt(call.key, iv, call.serialized)]
    /\ UNCHANGED <<mainVars, watch, earlier>>

\* decrypt_object: `serialized_data = self.cipher_suite.decrypt(cipher_text)`
DecryptCipher ==
    /\ call.op = "decrypt_object" /\ call.pc = "called"
    /\ LET d == FernetDecrypt(call.key, call.token) IN
       call' = IF d.ok
               THEN [call EXCEPT !.pc = "decrypted", !.decrypted = d.v]
               ELSE [call EXCEPT !.pc = "returned", !.how = "raised"]
    /\ UNCHANGED <<mainVars, watch, earlier>>

\* decrypt_object: `data = pickle.loads(serialized_data)` and the return
DecryptLoads ==
    /\ call.op = "decrypt_object" /\ call.pc = "decrypted"
    /\ LET l == PickleLoads(call.decrypted) IN
       call' = IF l.ok
               THEN [call EXCEPT !.pc = "returned", !.how = "returned", !.out = l.v]
               ELSE [call EXCEPT !.pc = "returned", !.how = "raised"]
    /\ UNCHANGED <<mainVars, watch, earlier>>

CryptoNext ==
    \/ EncryptDumps
    \/ EncryptCipher
    \/ DecryptCipher
    \/ DecryptLoads

SpecCrypto == InitCrypto /\ [][CryptoNext]_vars

\* C20: with one encryptor, decrypt_object(encrypt_object(x)) returns x for
\* every payload x, the empty byte string included.
RoundTrip ==
    (call.op = "decrypt_object" /\ call.pc = "returned")
    => (call.how = "returned" /\ call.out = call.x)

\* the empty byte string went through encrypt_object and decrypt_object
RoundTripWitness ==
    /\ call.op = "decrypt_object" /\ call.pc = "returned"
    /\ call.x = <<>> /\ call.token # <<>> /\ call.how = "returned"

(***************************************************************************)
(* Camera.__list_cmd of camera/cam.py: the output of `list <parameter>`    *)
(* cut at fixed offsets, split at the commas, each piece without its first *)
(* and last character.  Text is a sequence of characters.                  *)
(***************************************************************************)
\* `r[96:-6]`
SliceStart == 96
SliceEnd == 6

ResponseMarker == <<"r", "e", "s", "p", "o", "n", "s", "e", ":">>
ListedValues == {<<"1", "0", "0">>, <<"2", "0", "0">>, <<"4", "0", "0">>}

RECURSIVE ValueLists(_)
ValueLists(k) ==
    IF k = 0 THEN {<<>>}
    ELSE LET shorter == ValueLists(k - 1) IN
         shorter \cup {Append(l, v) : l \in {x \in shorter : Len(x) = k - 1},
                                      v \in ListedValues}

\* "100","200",... : every value quoted, commas between
RECURSIVE QuotedCsv(_)
QuotedCsv(l) ==
    IF l = <<>> THEN <<>>
    ELSE <<"\"">> \o l[1] \o <<"\"">>
         \o (IF Len(l) = 1 THEN <<>> ELSE <<",">> \o QuotedCsv(Tail(l)))

Padding(n) == [i \in 1..n |-> "#"]

\* what the remote command prints: n characters, the response, m characters
RawOutput(n, l, m) == Padding(n) \o ResponseMarker \o QuotedCsv(l) \o Padding(m)

\* Python's r[a:-b] for a >= 0, b > 0
Slice(r, a, b) == IF a < Len(r) - b THEN SubSeq(r, a + 1, Len(r) - b) ELSE <<>>

\* Python's text.split(",")
RECURSIVE SplitCommas(_)
SplitCommas(t) ==
    IF \A i \in 1..Len(t) : t[i] # ","
    THEN <<t>>
    ELSE LET i == CHOOSE k \in 1..Len(t) : t[k] = "," /\ \A j \in 1..(k - 1) : t[j] # "," IN
         <<SubSeq(t, 1, i - 1)>> \o SplitCommas(SubSeq(t, i + 1, Len(t)))

\* `e[1:-1]`
StripEnds(e) == Slice(e, 1, 1)

\* the list __list_cmd returns for the output r
ListCmdValue(r) ==
    LET pieces == SplitCommas(Slice(r, SliceStart, SliceEnd)) IN
    [i \in 1..Len(pieces) |-> StripEnds(pieces[i])]

NoListCmd ==
    [op |-> "none", pc |-> "off", pad |-> 0, trail |-> 0, values |-> <<>>,
     raw |-> <<>>, how |-> "pending", ret |-> [type |-> "none", v |-> <<>>]]

InitList ==
    /\ procRunning = FALSE /\ installed = FALSE /\ plugged = FALSE
    /\ dir = {} /\ nextFile = 1 /\ upload_files = {} /\ store = {}
    /\ pc = "idle" /\ req = NoRequest
    /\ camera = [rev |-> "app", is_up |-> FALSE, is_plug |-> FALSE]
    /\ log = <<>> /\ resp = NoResponse /\ session = "none"
    /\ watch = NoWatch /\ earlier = OutcomesOff
    /\ \E n \in {0, SliceStart - Len(ResponseMarker)}, m \in {0, SliceEnd},
          l \in ValueLists(MaxValues) :
          call = [NoListCmd EXCEPT !.op = "list_cmd", !.pc = "called", !.pad = n,
                                   !.trail = m, !.values = l]

\* subprocess.check_output of `list <parameter>`: it raises, or the
\* controller answers "Unknown parameter", or it answers the values
ListCmdRun ==
    /\ call.op = "list_cmd" /\ call.pc = "called"
    /\ \E answer \in {"raises", "unknown", "values"} :
          call' = CASE answer = "raises" ->
                         [call EXCEPT !.pc = "returned", !.how = "raised"]
                    [] answer = "unknown" ->
                         [call EXCEPT !.pc = "returned", !.how = "returned",
                                      !.ret = [type |-> "int", v |-> <<>>]]
                    [] OTHER ->
                         [call EXCEPT !.pc = "answered",
                                      !.raw = RawOutput(call.pad, call.values, call.trail)]
    /\ UNCHANGED <<mainVars, watch, earlier>>

\* the else branch of __list_cmd
ListCmdParse ==
    /\ call.op = "list_cmd" /\ call.pc = "answered"
    /\ call' = [call EXCEPT !.pc = "returned", !.how = "returned",
                            !.ret = [type |-> "list", v |-> ListCmdValue(call.raw)]]
    /\ UNCHANGED <<mainVars, watch, earlier>>

ListNext ==
    \/ ListCmdRun
    \/ ListCmdParse

SpecList == InitList /\ [][ListNext]_vars

\* the controller answered the values 100, 200, 400 and __list_cmd returned
AnsweredIsoValues ==
    /\ call.op = "list_cmd" /\ call.pc = "returned" /\ call.raw # <<>>
    /\ call.values = <<<<"1", "0", "0">>, <<"2", "0", "0">>, <<"4", "0", "0">>>>

\* C21: the list primitive applied to the raw output
\* response:"100","200","400" returns the sequence 100, 200, 400.
ScenarioD ==
    (AnsweredIsoValues /\ call.raw = RawOutput(0, call.values, 0))
    => call.ret = [type |-> "list", v |-> call.values]

\* C22: a start request (startVideo, preview, makeVideo) that arrives while
\* the controller is recording from an earlier start is rejected and sends
\* neither LiveViewWnd_Show nor StartRecord.
OneSessionAtATime ==
    (/\ pc = "done"
     /\ req.kind \in {"startVideo", "preview", "makeVideo"}
     /\ req.prior = "started")
    => /\ ~resp.success
       /\ ~Issued(log, "LiveViewWnd_Show")
       /\ ~Issued(log, "StartRecord")

(***************************************************************************)
(* What happens between two statements of a request.  Requests are served *)
(* concurrently and file_config is one object of the module, so what       *)
(* another request does to it is seen by a preview in progress; and the    *)
(* controller process can exit at any moment.                              *)
(***************************************************************************)
\* CameraControl.exe exits after the camera check of the request and before
\* its is_running()
ExitsBeforeIsRunning ==
    /\ UNCHANGED <<sideVars, camera>>
    /\ pc = "is_running"
    /\ procRunning
    /\ procRunning' = FALSE
    /\ UNCHANGED <<installed, plugged, dir, nextFile, upload_files, store,
                   pc, req, log, resp, session>>

\* a file reaches the staging directory while the preview records
ArrivesWhileRecording ==
    /\ UNCHANGED <<sideVars, camera>>
    /\ req.kind = "preview" /\ pc \in {"record_sleep", "stop_recording"}
    /\ nextFile <= MaxFiles
    /\ dir' = dir \cup {nextFile}
    /\ nextFile' = nextFile + 1
    /\ UNCHANGED <<procRunning, installed, plugged, upload_files, store,
                   pc, req, log, resp, session>>

\* another request runs `file_config.update_upload_files()` (stopVideo at
\* routes.py:114, another preview at :169) between the preview's own
\* snapshot and its call of check_for_new_files
ConcurrentSnapshot ==
    /\ UNCHANGED <<sideVars, camera>>
    /\ req.kind = "preview" /\ pc \in {"record_sleep", "stop_recording"}
    /\ upload_files # dir
    /\ upload_files' = dir
    /\ UNCHANGED <<envVars, store, pc, req, log, resp, session>>

NextShared ==
    \/ Next
    \/ ArrivesWhileRecording
    \/ ConcurrentSnapshot
    \/ ExitsBeforeIsRunning

SpecShared == Init /\ [][NextShared]_vars

\* C23: the known files a preview passes to the watcher are the listing the
\* same preview took, whatever other requests run interleaved with it.
PrivateSnapshot ==
    (req.kind = "preview" /\ pc = "watch") => req.known = req.seen

\* C24: after a launch of the controller that succeeded, no remote command
\* is issued in the request before the 10 s settle sleep.
SettleBeforeCommand ==
    \A i, j \in 1..Len(log) :
        (/\ i < j
         /\ log[i].ev = "launch" /\ log[i].res.spawn
         /\ log[j].ev = "cmd")
        => \E k \in (i + 1)..(j - 1) : log[k] = [SleepEvent("10") EXCEPT !.up = log[k].up]

\* capture has returned
CaptureReturned == call.op = "capture" /\ call.pc = "returned" /\ call.how = "returned"

\* the command exited with code 0 / with another code
CaptureExitZero == call.result.spawn /\ call.result.rc = 0
CaptureExitNonZero == call.result.spawn /\ call.result.rc # 0

\* C25 as stated: exit code 0 and a readable file give success = true with the
\* bytes of the file as payload and the file gone from disk; a non-zero exit
\* gives success = false, status 500, and no file read or deleted.
CaptureReadsAndDeletes ==
    CaptureReturned =>
       /\ (CaptureExitZero /\ call.readable) =>
              (call.ret.success /\ call.data = call.file /\ call.disk = 0)
       /\ CaptureExitNonZero =>
              (~call.ret.success /\ call.ret.status_code = 500 /\ call.did = {})

\* C25 amended: the success outcome needs the removal of the file to succeed
\* as well; when os.remove fails the call answers 500 and the file stays.
CaptureReadsAndDeletesIfRemovable ==
    CaptureReturned =>
       /\ (CaptureExitZero /\ call.readable /\ call.removable) =>
              (call.ret.success /\ call.data = call.file /\ call.disk = 0)
       /\ (CaptureExitZero /\ call.readable /\ ~call.removable) =>
              (~call.ret.success /\ call.ret.status_code = 500 /\ call.disk = call.file)
       /\ CaptureExitNonZero =>
              (~call.ret.success /\ call.ret.status_code = 500 /\ call.did = {})

\* a capture that read the image, removed it and returned its bytes
CaptureReadsAndDeletesWitness ==
    /\ CaptureReturned /\ CaptureExitZero
    /\ call.ret.success /\ call.data \in ImageContents /\ call.did = {"read", "remove"}

\* close_program has returned
CloseReturned ==
    call.op = "close_program" /\ call.pc = "returned" /\ call.how = "returned"

NoRetry ==
    \A i, j \in 1..Len(log) :
        i < j =>
           /\ ~(log[i].ev = "launch" /\ log[j].ev = "launch")
           /\ ~(log[i].ev = "cmd" /\ log[j].ev = "cmd" /\ log[i].cmd = log[j].cmd)

\* C28: a LogDocument.save() that fails changes no outcome: an upload whose
\* read, encryption and storage succeeded answers success with status 200,
\* and no upload ends in an unhandled exception.
LogFailureHarmless ==
    (pc = "done" /\ req.kind = "upload")
    => /\ ~resp.unhandled
       /\ (/\ Did(log, "read", "done") /\ Did(log, "encrypt", "done")
           /\ Did(log, "insert", "done"))
          => (resp.success /\ resp.status_code = 200)

\* ---------------------------------------------------------------------
\* The classifications of one raw output: the same stdout of
\* CameraControlRemoteCmd.exe handed to every command primitive that reads it

Classifiers == {"LiveViewWnd_Show", "StartRecord", "StopRecord", "run_cmd", "set_cmd"}

\* the raw outputs: any combination of the three markers, exit status 0 or 1
RawResults ==
    {Result(TRUE, code, text) :
        code \in {0, 1}, text \in SUBSET {NoCameraMarker, EmptyMarker, NullMarker}}

\* Camera.start_recording, the branch on the output of LiveViewWnd_Show
LiveViewVerdict(r) == IF LiveViewAccepted(r) THEN "accepted" ELSE "rejected"

\* Camera.start_recording, the branch on the output of StartRecord
StartRecordVerdict(r) == IF EmptyMarker \in r.out THEN "accepted" ELSE "rejected"

\* Camera.stop_recording, the branch on the output of StopRecord
StopRecordVerdict(r) == IF StopAccepted(r) THEN "accepted" ELSE "rejected"

\* Camera.run_cmd: check_output raises on a non-zero exit status; "null" and
\* the two quotes are substrings of the null and the empty marker
RunCmdVerdict(r) ==
    IF r.rc # 0 THEN "raised"
    ELSE IF NullMarker \in r.out THEN "accepted"
    ELSE IF EmptyMarker \in r.out THEN "accepted"
    ELSE "rejected"

\* Camera.__set_cmd
SetCmdVerdict(r) ==
    IF r.rc # 0 THEN "raised"
    ELSE IF NullMarker \in r.out THEN "accepted"
    ELSE "rejected"

NoClassify ==
    [op |-> "none", result |-> SpawnFailure,
     verdict |-> [c \in Classifiers |-> "pending"]]

InitClassify ==
    /\ procRunning = FALSE /\ installed = FALSE /\ plugged = FALSE
    /\ dir = {} /\ nextFile = 1 /\ upload_files = {} /\ store = {}
    /\ pc = "idle" /\ req = NoRequest
    /\ camera = [rev |-> "app", is_up |-> FALSE, is_plug |-> FALSE]
    /\ log = <<>> /\ resp = NoResponse /\ session = "none"
    /\ watch = NoWatch /\ earlier = OutcomesOff
    /\ \E r \in RawResults :
          call = [NoClassify EXCEPT !.op = "classify", !.result = r]

Classify(c, v) ==
    /\ call.op = "classify" /\ call.verdict[c] = "pending"
    /\ call' = [call EXCEPT !.verdict[c] = v]
    /\ UNCHANGED <<mainVars, watch, earlier>>

ClassifyLiveView == Classify("LiveViewWnd_Show", LiveViewVerdict(call.result))
ClassifyStartRecord == Classify("StartRecord", StartRecordVerdict(call.result))
ClassifyStopRecord == Classify("StopRecord", StopRecordVerdict(call.result))
ClassifyRunCmd == Classify("run_cmd", RunCmdVerdict(call.result))
ClassifySetCmd == Classify("set_cmd", SetCmdVerdict(call.result))

ClassifyNext ==
    \/ ClassifyLiveView
    \/ ClassifyStartRecord
    \/ ClassifyStopRecord
    \/ ClassifyRunCmd
    \/ ClassifySetCmd

SpecClassify == InitClassify /\ [][ClassifyNext]_vars

\* every primitive has classified the output
ClassifiedByAll ==
    /\ call.op = "classify"
    /\ \A c \in Classifiers : call.verdict[c] # "pending"

\* C29: one raw output of a command that ran (exit status 0, no
\* disconnected-camera text) is classified alike by live view show,
\* StartRecord, StopRecord, run_cmd and the set primitive, and an output
\* with the empty quoted string or the null token is accepted by all of them.
ClassifiedAlike ==
    (/\ ClassifiedByAll
     /\ call.result.rc = 0
     /\ NoCameraMarker \notin call.result.out)
    => /\ \A c, d \in Classifiers : call.verdict[c] = call.verdict[d]
       /\ (EmptyMarker \in call.result.out \/ NullMarker \in call.result.out)
          => \A c \in Classifiers : call.verdict[c] = "accepted"

\* an entry that is not in the known files was in the directory when
\* check_for_new_files was called: none such was added during the call
PresentAtCall ==
    /\ watch.path = "uploads"
    /\ watch.arrived = -1
    /\ NewFiles(watch.entries, watch.known) # {}

\* C30: over a valid directory, for every timeout including 0, the call
\* lists the directory and compares it with the known files at least once
\* before it returns, and it returns true when an entry that is not in the
\* known files was already present at the call.
ListsBeforeFalse ==
    (watch.pc = "returned" /\ watch.path = "uploads")
    => /\ watch.polls >= 1
       /\ PresentAtCall => watch.result = TRUE

\* C31: a preview request performs its steps in this order: the directory
\* snapshot, then LiveViewWnd_Show and StartRecord, then the sleep of 1.5 s,
\* then StopRecord, then the watcher, then the frame, then delete_all_files;
\* the snapshot is taken before the start-record command is issued.
PreviewOrder ==
    req.kind = "preview"
    => \A i, j \in 1..Len(log) :
          /\ (log[i].ev = "snapshot" /\ IsCmd(log[j], "StartRecord")) => i < j
          /\ (IsCmd(log[i], "StartRecord") /\ log[j].ev = "sleep" /\ log[j].cmd = "1.5")
                => i < j
          /\ (log[i].ev = "sleep" /\ log[i].cmd = "1.5" /\ IsCmd(log[j], "StopRecord"))
                => i < j
          /\ (IsCmd(log[i], "StopRecord") /\ log[j].ev = "watch") => i < j
          /\ (log[i].ev = "watch" /\ log[j].ev = "frame") => i < j
          /\ (log[i].ev = "frame" /\ log[j].ev = "delete_all") => i < j

\* the StopRecord commands the request has issued
StopsIssued == {i \in 1..Len(log) : IsCmd(log[i], "StopRecord")}

WaitingTime == 900

\* the call check_for_new_files(self.uploads_path, timer_seconds=waiting_time):
\* previous_files is not passed and becomes the empty list; req.seen keeps the
\* snapshot that upload_files held when the request came in
InitCheckFile ==
    /\ procRunning = FALSE /\ installed = FALSE /\ plugged = FALSE
    /\ dir = {} /\ nextFile = 1 /\ store = {}
    /\ camera = [rev |-> "api", is_up |-> FALSE, is_plug |-> FALSE]
    /\ log = <<>> /\ resp = NoResponse /\ session = "none"
    /\ earlier = OutcomesOff /\ call = NoCall
    /\ pc = "check_file"
    /\ \E stored \in SUBSET Entries, entries \in SUBSET Entries :
          /\ upload_files = stored
          /\ req = [NoRequest EXCEPT !.kind = "checkFile", !.seen = stored]
          /\ watch = [NoWatch EXCEPT !.pc = "called", !.path = "uploads",
                                     !.known = {}, !.timer = WaitingTime,
                                     !.entries = entries]

\* `self.update_upload_files()`, `return are_new_files`, and the answer of
\* check_new_file
CheckFileReturn ==
    /\ pc = "check_file"
    /\ watch.pc = "returned"
    /\ upload_files' = watch.entries
    /\ resp' = IF watch.result
               THEN Response(TRUE, 200, "New file found")
               ELSE Response(FALSE, 500, "No new files found")
    /\ pc' = "done"
    /\ UNCHANGED <<envVars, store, req, log, session, camera, sideVars>>

CheckFileNext ==
    \/ WatchNext
    \/ CheckFileReturn

SpecCheckFile == InitCheckFile /\ [][CheckFileNext]_vars

\* C33: checkFile reports a new file only if the staging directory holds an
\* entry that is not in the stored upload_files snapshot; entries recorded in
\* the snapshot are not reported as new.
CheckFileReportsOnlyNew ==
    (req.kind = "checkFile" /\ pc = "done" /\ resp.success)
    => NewFiles(watch.entries, req.seen) # {}

\* C34: a step removes a file from the staging directory only when the bytes
\* of that file were read by the request that takes the step (the file the
\* preview took its frame from, the file the upload read): no other file of
\* the directory is deleted.
RemovesOnlyConsumed ==
    [][\A f \in dir \ dir' : f = req.video]_vars

\* C35: when a preview request that started a recording has returned, the
\* staging directory holds no file that arrived after the snapshot of that
\* preview, whether the frame was returned, the frame extraction failed or
\* the watcher timed out.
PreviewLeavesNothing ==
    (pc = "done" /\ req.kind = "preview" /\ req.start.success)
    => dir \ req.seen = {}

\* C36: when the upload ends with status 501, the recording it read is still
\* in the staging directory or in the storage.
RecordingSurvives501 ==
    (pc = "done" /\ req.kind = "upload" /\ ~resp.unhandled /\ resp.status_code = 501)
    => (req.video \in dir \/ req.video \in store)

\* C37: when config_camera has failed at some field, every field applied
\* before it was set once and no further set command was sent for it: the
\* call ends with the failing command, nothing is restored.
ConfigKeepsApplied ==
    (call.op = "config_camera" /\ call.pc = "returned" /\ ~call.ret.success)
    => /\ \A i, j \in 1..Len(call.sent) :
              call.sent[i].cmd = call.sent[j].cmd => i = j
       /\ \A i \in 1..Len(call.sent) :
              call.sent[i].res = "raises" => i = Len(call.sent)

\* a config_camera that applied two fields or more and failed at the next
ConfigKeepsAppliedWitness ==
    /\ call.op = "config_camera" /\ call.pc = "returned" /\ ~call.ret.success
    /\ Len(call.sent) >= 3
    /\ call.sent[1].res = "applied" /\ call.sent[2].res = "applied"
    /\ call.sent[Len(call.sent)].res = "raises"

\* ---------------------------------------------------------------------
\* /login/addUser and /login/deleteUser over the user collection.  Each
\* request runs in its own thread of the server; a query and a save are two
\* separate round trips to the database.

\* the requests the clients send before the model stops
MaxRequests == 4

Clients == {"a", "b"}
\* "" stands for a missing or empty field of the body
Usernames == {"", "u1", "u2"}
Passwords == {"", "pw"}

\* the id of a document that was never saved or loaded (pk is None)
NoId == 0

NoClient ==
    [pc |-> "idle", kind |-> "none", username |-> "", password |-> "",
     had |-> {}, resp |-> NoResponse]

InitUsers ==
    /\ procRunning = FALSE /\ installed = FALSE /\ plugged = FALSE
    /\ dir = {} /\ nextFile = 1 /\ upload_files = {} /\ store = {}
    /\ pc = "idle" /\ req = NoRequest
    /\ camera = [rev |-> "api", is_up |-> FALSE, is_plug |-> FALSE]
    /\ log = <<>> /\ resp = NoResponse /\ session = "none"
    /\ watch = NoWatch /\ earlier = OutcomesOff
    /\ call = [op |-> "users", db |-> {}, nextId |-> 1, begun |-> 0,
               clients |-> [c \in Clients |-> NoClient]]

\* UserDocument.objects(username=u)
UsersNamed(db, u) == {d \in db : d.username = u}

\* Document.delete(): the filter is the primary key of the document
DeleteById(db, id) == {d \in db : d.id # id}

UsersStep(c, client, db, nextId) ==
    /\ call' = [call EXCEPT !.clients[c] = client, !.db = db, !.nextId = nextId]
    /\ UNCHANGED <<mainVars, watch, earlier>>

\* a request comes in: `request.json.get("username", False)` and the password
UserRequest(c, kind, u, p) ==
    /\ call.op = "users" /\ call.clients[c].pc = "idle"
    /\ call.begun < MaxRequests
    /\ call' = [call EXCEPT !.begun = @ + 1,
                            !.clients[c] = [NoClient EXCEPT !.pc = kind, !.kind = kind,
                                                            !.username = u, !.password = p]]
    /\ UNCHANGED <<mainVars, watch, earlier>>

\* add_user: `if username and password`, and the query for the username
AddUserCheck(c) ==
    LET t == call.clients[c] IN
    /\ call.op = "users" /\ t.pc = "addUser"
    /\ \E queryOk \in BOOLEAN :
          UsersStep(c,
              IF t.username = "" \/ t.password = ""
              THEN [t EXCEPT !.pc = "done", !.resp = Response(FALSE, 400, "Bad request")]
              ELSE IF ~queryOk
              THEN [t EXCEPT !.pc = "done", !.resp = Response(FALSE, 500, "exception")]
              ELSE IF UsersNamed(call.db, t.username) # {}
              THEN [t EXCEPT !.pc = "done",
                             !.resp = Response(TRUE, 200, "User already exists")]
              ELSE [t EXCEPT !.pc = "save"],
              call.db, call.nextId)

\* add_user: `user.save()` of the else branch
AddUserSave(c) ==
    LET t == call.clients[c] IN
    /\ call.op = "users" /\ t.pc = "save"
    /\ \E saveOk \in BOOLEAN :
          IF saveOk
          THEN UsersStep(c, [t EXCEPT !.pc = "done",
                                      !.resp = Response(TRUE, 200, "User added successfully")],
                         call.db \cup {[id |-> call.nextId, username |-> t.username]},
                         call.nextId + 1)
          ELSE UsersStep(c, [t EXCEPT !.pc = "done",
                                      !.resp = Response(FALSE, 500, "exception")],
                         call.db, call.nextId)

\* delete_user: a UserDocument built from the body, and its delete()
DeleteUser(c) ==
    LET t == call.clients[c] IN
    /\ call.op = "users" /\ t.pc = "deleteUser"
    /\ \E deleteOk \in BOOLEAN :
          IF t.username = "" \/ t.password = ""
          THEN UsersStep(c, [t EXCEPT !.pc = "done",
                                      !.resp = Response(FALSE, 400, "Bad request")],
                         call.db, call.nextId)
          ELSE IF ~deleteOk
          THEN UsersStep(c, [t EXCEPT !.pc = "done",
                                      !.resp = Response(FALSE, 500, "exception")],
                         call.db, call.nextId)
          ELSE UsersStep(c, [t EXCEPT !.pc = "done",
                                      !.had = UsersNamed(call.db, t.username),
                                      !.resp = Response(TRUE, 200, "User deleted successfully")],
                         DeleteById(call.db, NoId), call.nextId)

\* the answer is sent
UserRequestEnds(c) ==
    /\ call.op = "users" /\ call.clients[c].pc = "done"
    /\ UsersStep(c, NoClient, call.db, call.nextId)

UsersNext ==
    \/ \E c \in Clients, kind \in {"addUser", "deleteUser"}, u \in Usernames,
          p \in Passwords : UserRequest(c, kind, u, p)
    \/ \E c \in Clients : AddUserCheck(c)
    \/ \E c \in Clients : AddUserSave(c)
    \/ \E c \in Clients : DeleteUser(c)
    \/ \E c \in Clients : UserRequestEnds(c)

SpecUsers == InitUsers /\ [][UsersNext]_vars

\* C38: whatever the interleaving of the addUser requests, the collection
\* holds at most one user document per username.
OneUserPerName ==
    call.op = "users"
    => \A u \in Usernames : Cardinality(UsersNamed(call.db, u)) <= 1

\* C39: when deleteUser has answered success = true, "User deleted
\* successfully", the user documents that carried the username when the
\* delete ran are no longer in the collection.
DeletedUserIsGone ==
    call.op = "users"
    => \A c \in Clients :
          (/\ call.clients[c].pc = "done"
           /\ call.clients[c].kind = "deleteUser"
           /\ call.clients[c].resp.success)
          => call.clients[c].had \cap call.db = {}

\* ---------------------------------------------------------------------
\* BackUp.mongo_dump over the backup directory.  The directory is the list of
\* its entries in the order of their names (time stamps: oldest first), each
\* with the flag "created today".

\* the entries the backup directory can hold before the model stops
MaxBackups == 7

\* `self.backup_count: int = 5`, `self.backup_by_day: int = 2`
backup_count == 5
backup_by_day == 2

InitBackup ==
    /\ procRunning = FALSE /\ installed = FALSE /\ plugged = FALSE
    /\ dir = {} /\ nextFile = 1 /\ upload_files = {} /\ store = {}
    /\ pc = "idle" /\ req = NoRequest
    /\ camera = [rev |-> "api", is_up |-> FALSE, is_plug |-> FALSE]
    /\ log = <<>> /\ resp = NoResponse /\ session = "none"
    /\ watch = NoWatch /\ earlier = OutcomesOff
    /\ call = [op |-> "backup", pc |-> "idle", backups |-> <<>>, status |-> 0]

\* BackUp.check_backup_policies: the status code for a directory of n entries
\* (500 when os.listdir raises)
PolicyStatus(n, listOk) ==
    IF ~listOk THEN 500
    ELSE IF n = 0 \/ n < backup_by_day \/ n < backup_count THEN 200
    ELSE IF n > backup_count THEN 501
    ELSE IF n > backup_by_day THEN 502
    ELSE 200

\* the entries of b from position k + 1 on
DropFirst(b, k) == SubSeq(b, k + 1, Len(b))

\* `while len(backup_files) > self.backup_count`: the number of entries the
\* loop of delete_old_backups has to remove
Excess(n, limit) == IF n > limit THEN n - limit ELSE 0

\* the positions of the entries created today
Today(b) == {i \in 1..Len(b) : b[i]}

\* b without the k oldest entries of today
DropToday(b, k) ==
    LET keep == {i \in 1..Len(b) :
                    ~b[i] \/ Cardinality({j \in Today(b) : j < i}) >= k} IN
    SelectSeq([i \in 1..Len(b) |-> [at |-> i, today |-> b[i]]],
              LAMBDA e : e.at \in keep)

BackupStep(p, b, s) ==
    /\ call' = [call EXCEPT !.pc = p, !.backups = b, !.status = s]
    /\ UNCHANGED <<mainVars, watch, earlier>>

\* mongo_dump is called: check_backup_policies
CheckBackupPolicies ==
    /\ call.op = "backup" /\ call.pc = "idle"
    /\ Len(call.backups) < MaxBackups
    /\ \E listOk \in BOOLEAN :
          LET s == PolicyStatus(Len(call.backups), listOk) IN
          BackupStep(IF s = 200 THEN "dump" ELSE "resolve", call.backups, s)

\* resolve_backup_policies: delete_old_backups for 501 (os.rmdir of the oldest
\* entries; the first that raises ends it), delete_old_backups_per_day for 502
\* (os.path.getctime of the bare names, then os.remove of the oldest entries
\* of today), nothing for another code
ResolveBackupPolicies ==
    /\ call.op = "backup" /\ call.pc = "resolve"
    /\ CASE call.status = 501 ->
              \E k \in 0..Excess(Len(call.backups), backup_count) :
                  BackupStep("dump", DropFirst(call.backups, k), call.status)
         [] call.status = 502 ->
              \E ctimeOk \in BOOLEAN :
                 \E k \in 0..(IF ctimeOk
                              THEN Excess(Cardinality(Today(call.backups)), backup_by_day)
                              ELSE 0) :
                  BackupStep("dump",
                             [i \in 1..Len(DropToday(call.backups, k)) |->
                                 DropToday(call.backups, k)[i].today],
                             call.status)
         [] OTHER -> BackupStep("dump", call.backups, call.status)

\* `subprocess.run(cmd)`: mongodump writes a new entry named by the time, or
\* fails and writes none
MongoDump ==
    /\ call.op = "backup" /\ call.pc = "dump"
    /\ \E dumpOk \in BOOLEAN :
          BackupStep("idle",
                     IF dumpOk THEN Append(call.backups, TRUE) ELSE call.backups,
                     call.status)

\* midnight passes between two backups
DayPasses ==
    /\ call.op = "backup" /\ call.pc = "idle"
    /\ Today(call.backups) # {}
    /\ BackupStep("idle", [i \in 1..Len(call.backups) |-> FALSE], call.status)

BackupNext ==
    \/ CheckBackupPolicies
    \/ ResolveBackupPolicies
    \/ MongoDump
    \/ DayPasses

SpecBackup == InitBackup /\ [][BackupNext]_vars

\* C40: after any sequence of mongo_dump calls, the backup directory holds at
\* most backup_count (5) backups.
BackupsWithinLimit ==
    (call.op = "backup" /\ call.pc = "idle") => Len(call.backups) <= backup_count

====
